---- MODULE Spec2Model ----
(***************************************************************************)
(* A model of fiftyone.core.dataset: the Dataset life cycle (singleton     *)
(* instances, delete guard, media type), sample insertion, and the merge   *)
(* engine (_merge_samples_pipeline and the merge expression of             *)
(* _merge_docs), over MongoDB collections modelled as sets of documents.   *)
(*                                                                         *)
(* The specifications share the variables:                                 *)
(*   SpecDocs    the per-document merge expression of _merge_docs          *)
(*   SpecLife    Dataset construction, attribute guard, adds, delete       *)
(*   SpecData    the stored samples and the media type of two datasets     *)
(*   SpecMerge   the phases of _merge_samples_pipeline on video datasets   *)
(*   SpecInsert  merge_samples with field selections, both strategies      *)
(*   SpecSchema  the schema of two datasets under adds, merges and saves   *)
(*   SpecIter    _iter_samples under cursor expirations                    *)
(*   SpecPipe    the pipeline compiled by Dataset._pipeline                *)
(*   SpecCreate  _create_dataset run by two processes, step by step        *)
(*   SpecClone   run results of datasets that are cloned and deleted       *)
(*   SpecIndex   create_index, drop_index and merges on one field          *)
(*   SpecTemp    merge_samples of a list through a temporary dataset       *)
(*   SpecKeyed   merge_samples with a key function, equal source keys      *)
(***************************************************************************)
EXTENDS Integers, Sequences, FiniteSets, TLC

VARIABLES
    \* ---- parameters of merge_samples (shared by SpecDocs and SpecMerge)
    key_field, skip_existing, insert_new, fields, omit_fields,
    merge_lists, overwrite,
    \* ---- SpecDocs: one matched pair of documents and the merged result
    rootDoc, srcDoc, outDoc, dpc,
    \* ---- SpecLife: Dataset instances, the name registry, the last call
    ds, registry, media_type, res, everDeleted,
    \* ---- SpecMerge: collections, indexes, and the position in the merge
    samples, frames, sindex, findex, srcName, pc, err, nextId, ix, pre,
    \* ---- the field schemas of the datasets
    field_schema,
    \* ---- SpecIter: one iteration; SpecPipe: one compilation
    it, cp,
    \* ---- SpecCreate: dataset documents and the processes that create them
    cr,
    \* ---- SpecClone: the run documents of the datasets and the blob store
    br

paramVars == <<key_field, skip_existing, insert_new, fields, omit_fields,
               merge_lists, overwrite>>
docVars   == <<rootDoc, srcDoc, outDoc, dpc>>
lifeVars  == <<ds, registry, media_type, res, everDeleted>>
mergeVars == <<samples, frames, sindex, findex, srcName, pc, err, nextId, ix, pre,
               field_schema>>
toolVars  == <<it, cp, cr, br>>
vars      == <<paramVars, docVars, lifeVars, mergeVars, toolVars>>

----------------------------------------------------------------------------
(* Bounds *)

MaxLen == 2         \* longest list / label list in a document
MaxInstances == 2   \* Dataset objects constructed in one run
MaxSamples == 2     \* sample documents inserted in one run of calls
MaxFrames == 1      \* frame numbers 1..MaxFrames per video sample
MaxDocs == 3        \* samples of the dataset that is iterated
MaxExpirations == 3 \* cursors that expire during one iteration

----------------------------------------------------------------------------
(* Optional values: None is the empty set, a given value x is {x}. *)

None == {}
Some(x) == {x}
IsNone(o) == o = {}
The(o) == CHOOSE x \in o : TRUE

(* BSON values.  Every value is a tagged record so that values of different
   kinds can be compared. *)

\* the value of an expression that is computed once and then used
TheOnly(S) == CHOOSE x \in S : TRUE

Null == [t |-> "null"]
Missing == [t |-> "missing"]
Val(x) == [t |-> "val", v |-> x]
List(s) == [t |-> "list", v |-> s]
\* an embedded label-list document, e.g. Detections: `a` stands for its other
\* attributes, `v` for its element list (the _LABEL_LIST_FIELD leaf)
Labels(a, s) == [t |-> "labels", a |-> a, v |-> s]

\* "$f" / "$$new.f": the value of a field path, missing when absent
Get(d, f) == IF f \in DOMAIN d THEN d[f] ELSE Missing

\* {"$gt": [x, None]}: null and missing do not compare greater than null
GtNull(x) == x.t \notin {"null", "missing"}

\* absence and null are the same value to a reader of the document
Value(d, f) == IF GtNull(Get(d, f)) THEN d[f] ELSE Null

\* $mergeObjects of two documents: fields of the later operand win
MergeObjects2(a, b) ==
    [f \in DOMAIN a \cup DOMAIN b |-> IF f \in DOMAIN b THEN b[f] ELSE a[f]]

RECURSIVE MergeObjects(_)
MergeObjects(docs) ==
    IF docs = <<>> THEN <<>>
    ELSE IF Len(docs) = 1 THEN docs[1]
    ELSE MergeObjects(<<MergeObjects2(docs[1], docs[2])>> \o SubSeq(docs, 3, Len(docs)))

\* $arrayToObject . $filter . $objectToArray with a condition on (k, v)
FilterObject(d, Cond(_, _)) ==
    [f \in {k \in DOMAIN d : Cond(k, d[k])} |-> d[f]]

\* an object literal whose fields are expressions: missing results are dropped
ObjectOf(d) == FilterObject(d, LAMBDA k, v : v # Missing)

RECURSIVE ReverseArray(_)
ReverseArray(s) ==
    IF s = <<>> THEN <<>> ELSE Append(ReverseArray(Tail(s)), Head(s))

\* $filter of an array
FilterArray(s, Keep(_)) == SelectSeq(s, Keep)

\* {"$in": [x, array]}
In(x, s) == \E i \in 1..Len(s) : s[i] = x

\* $map of "$$this._id" over a label list
Ids(s) == [i \in 1..Len(s) |-> s[i].id]

----------------------------------------------------------------------------
(* _merge_list_field: the $switch stored under doc[list_field] *)

MergeListFieldOverwrites(root, new, list_field) ==
    LET old == Get(root, list_field)
        inc == Get(new, list_field)
    IN  IF ~GtNull(inc) THEN old ELSE inc

_merge_list_field(root, new, list_field) ==
    LET old == Get(root, list_field)
        inc == Get(new, list_field)
    IN  IF ~GtNull(old) THEN inc
        ELSE IF ~GtNull(inc) THEN old
        ELSE List(old.v \o FilterArray(inc.v, LAMBDA x : ~In(x, old.v)))

(* _merge_label_list_field: the $switch stored under doc[field] *)

\* the $reduce of both branches: append the elements of input whose id is not
\* in ids to value
RECURSIVE ReduceAppend(_, _, _)
ReduceAppend(input, value, ids) ==
    IF input = <<>> THEN value
    ELSE ReduceAppend(Tail(input),
                      IF ~In(Head(input).id, ids)
                      THEN value \o <<Head(input)>> ELSE value,
                      ids)

LabelElementsNoReverse(old, inc, ow) ==
    IF ow
    THEN ReduceAppend(ReverseArray(old), inc, Ids(inc))
    ELSE ReduceAppend(inc, old, Ids(old))

LabelElements(old, inc, ow) ==
    IF ow
    THEN ReverseArray(ReduceAppend(ReverseArray(old), ReverseArray(inc), Ids(inc)))
    ELSE ReduceAppend(inc, old, Ids(old))

_merge_label_list_field(root, new, field, ow) ==
    LET old == Get(root, field)
        inc == Get(new, field)
    IN  IF ~GtNull(old) THEN inc
        ELSE IF ~GtNull(inc) THEN old
        ELSE Labels((IF ow THEN inc ELSE old).a, LabelElements(old.v, inc.v, ow))

----------------------------------------------------------------------------
(* Field names.  A name is the string the caller passes; frame fields are
   passed with the "frames." prefix, which split_frame_fields strips. *)

\* SampleCollection._get_db_fields_map: "id" is stored as "_id"
DbField(f) == IF f = "id" THEN "_id" ELSE f

\* _get_default_sample_fields(include_private=True) without "id"
default_fields == {"filepath", "tags", "metadata", "_media_type", "_rand"}

FramePaths == {"frames.fval"}
IsFramePath(f) == f \in FramePaths
StripFrames(f) == IF f = "frames.fval" THEN "fval" ELSE f

\* a list of field names as the dict {f: f}
AsDict(S) == [f \in S |-> f]

\* the values of a dict
Values(d) == {d[k] : k \in DOMAIN d}

\* field types of the schema
SampleSchema ==
    [filepath |-> "scalar", tags |-> "list", foo |-> "scalar",
     dets |-> "labels"]
FrameSchema == [frame_number |-> "scalar", fval |-> "scalar"]

\* the declared fields of a new dataset with their types (_create_dataset):
\* the default sample fields, and the frame fields of the frame document
DefaultSampleSchema ==
    [filepath |-> "StringField", tags |-> "ListField",
     metadata |-> "EmbeddedDocumentField", _media_type |-> "StringField",
     _rand |-> "FloatField"]
DefaultFrameSchema == [frame_number |-> "FrameNumberField"]
DefaultSchema == [sample |-> DefaultSampleSchema, frame |-> DefaultFrameSchema]

\* a schema with one more declared field
Declared(sch, f, ty) ==
    [g \in DOMAIN sch \cup {f} |-> IF g = f THEN ty ELSE sch[g]]

\* the schema of the datasets whose documents carry foo and fval
FooSchema ==
    [sample |-> Declared(DefaultSampleSchema, "foo", "IntField"),
     frame |-> Declared(DefaultFrameSchema, "fval", "IntField")]

\* no iteration and no compilation in progress
NoIter == [pc |-> "idle"]
NoCompile == [pc |-> "idle"]

\* the processes that create datasets, and their positions: no dataset
\* document, no collection, no call
Procs == {"p1", "p2"}
NoCall == [pc |-> "idle", name |-> "", out |-> ""]
NoCreate == [docs |-> {}, colls |-> {}, proc |-> [p \in Procs |-> NoCall]]

\* the keys of the runs: one evaluation and one brain run
RunKeys == {"eval", "brain"}

\* a run document that is not there; no run, no blob, no results loaded
NoRun == [present |-> FALSE, results |-> {}]
NoRuns == [runs |-> [k \in {} |-> [key \in RunKeys |-> NoRun]],
           blobs |-> {}, last |-> ""]

IdleTools == it = NoIter /\ cp = NoCompile /\ cr = NoCreate /\ br = NoRuns

----------------------------------------------------------------------------
(* _merge_docs: the whenMatched pipeline [{$replaceWith: {$mergeObjects:
   docs}}] applied to the existing document ($$ROOT) and the incoming one
   ($$new).  fieldsOpt / omitOpt are optional (None or Some). *)

MergeDocsNoNullFilter(schema, ml, fieldsOpt, omitOpt, delete_fields, ow, root, new) ==
    IF ow THEN MergeObjects2(root, FilterObject(new, LAMBDA k, v : k \notin delete_fields))
    ELSE MergeObjects2(FilterObject(new, LAMBDA k, v : k \notin delete_fields), root)

_merge_docs(schema, ml, fieldsOpt, omitOpt, delete_fields, ow, root, new) ==
    LET selected(f) ==
            /\ IsNone(fieldsOpt) \/ f \in DOMAIN The(fieldsOpt)
            /\ IsNone(omitOpt) \/ f \notin The(omitOpt)
        rootOf(f) == IF IsNone(fieldsOpt) THEN f ELSE The(fieldsOpt)[f]
        list_fields ==
            IF ml
            THEN {rootOf(f) : f \in {g \in DOMAIN schema :
                                       selected(g) /\ schema[g] = "list"}}
            ELSE {}
        elem_fields ==
            IF ml
            THEN {rootOf(f) : f \in {g \in DOMAIN schema :
                                       selected(g) /\ schema[g] = "labels"}}
            ELSE {}
        new_doc ==
            IF ow
            THEN FilterObject(new, LAMBDA k, v :
                                 v # Null /\ k \notin delete_fields)
            ELSE FilterObject(new, LAMBDA k, v : k \notin delete_fields)
        root_doc ==
            IF ow THEN root
            ELSE FilterObject(root, LAMBDA k, v : v # Null)
        docs == IF ow THEN <<root_doc, new_doc>> ELSE <<new_doc, root_doc>>
        doc ==
            ObjectOf([f \in list_fields \cup elem_fields |->
                        IF f \in list_fields
                        THEN _merge_list_field(root, new, f)
                        ELSE _merge_label_list_field(root, new, f, ow)])
    IN  MergeObjects(docs \o <<doc>>)

----------------------------------------------------------------------------
(* _merge_samples_pipeline, preparation (lines 4847-4892): the normalised
   parameters.  fieldsOpt is None or Some(dict), omitOpt None or Some(set). *)

KeyField(kf) == DbField(kf)

\* fields after split_frame_fields and the omit filter: sample part
SampleFields(fieldsOpt, omitOpt, is_video) ==
    IF IsNone(fieldsOpt) THEN None
    ELSE LET d == The(fieldsOpt)
             keep == {k \in DOMAIN d :
                        /\ ~(is_video /\ IsFramePath(k))
                        /\ IsNone(omitOpt) \/ k \notin The(omitOpt)}
         IN  Some([k \in keep |-> d[k]])

\* ... and the frame part (None when the dataset is not video or no fields
\* were given; otherwise a dict, possibly empty)
FrameFields(fieldsOpt, omitOpt, is_video) ==
    IF IsNone(fieldsOpt) \/ ~is_video THEN None
    ELSE LET d == The(fieldsOpt)
             keep == {k \in DOMAIN d :
                        /\ IsFramePath(k)
                        /\ IsNone(omitOpt) \/ k \notin The(omitOpt)}
         IN  Some([k \in {StripFrames(p) : p \in keep} |->
                     StripFrames(d[CHOOSE p \in keep : StripFrames(p) = k])])

\* omit_fields after the split: None once it has been folded into fields
SampleOmit(fieldsOpt, omitOpt, is_video) ==
    IF IsNone(omitOpt) \/ ~IsNone(fieldsOpt) THEN None
    ELSE Some({f \in The(omitOpt) : ~(is_video /\ IsFramePath(f))})

FrameOmit(fieldsOpt, omitOpt, is_video) ==
    IF IsNone(omitOpt) \/ ~is_video THEN None
    ELSE IF ~IsNone(FrameFields(fieldsOpt, omitOpt, is_video)) THEN None
    ELSE Some({StripFrames(f) : f \in {g \in The(omitOpt) : IsFramePath(g)}})

----------------------------------------------------------------------------
(* The sample pipeline of _merge_samples_pipeline (lines 4934-5022), as the
   function it applies to one source document before $merge. *)

\* {"$project": project}: _id is kept by default, included fields are copied
\* when present, renamed fields are computed from their source
ProjectSample(d, ins, sfields) ==
    IF IsNone(sfields) THEN d
    ELSE
      LET fd == The(sfields)
          same == {k \in DOMAIN fd : DbField(k) = DbField(fd[k])}
          forced == IF ins THEN {"filepath", "_rand", "_media_type"} ELSE {}
          incl == {DbField(k) : k \in same} \cup forced
          targets == {DbField(fd[k]) : k \in DOMAIN fd \ same} \ forced
          sourceOf(v) == DbField(CHOOSE k \in DOMAIN fd \ same : DbField(fd[k]) = v)
          tagsLiteral == ins /\ "tags" \notin (incl \cup targets)
          keys == {"_id"} \cup incl \cup targets
                    \cup (IF tagsLiteral THEN {"tags"} ELSE {})
      IN  ObjectOf([f \in keys |->
                      IF f \in targets THEN Get(d, sourceOf(f))
                      ELSE IF f = "tags" /\ tagsLiteral THEN List(<<>>)
                      ELSE Get(d, f)])

\* the names removed by {"$unset": unset_fields}
UnsetSampleFields(kf, ins, somit) ==
    LET omit0 == (IF IsNone(somit) THEN {} ELSE The(somit)) \cup {"id"}
        omit1 == omit0 \ {kf}
        omit2 == IF ins THEN omit1 \ default_fields ELSE omit1
    IN  {DbField(f) : f \in omit2}

\* the document that reaches the $merge stage
SamplePipelineDoc(d, kf, ins, sfields, somit) ==
    LET p == ProjectSample(d, ins, sfields)
        u == UnsetSampleFields(kf, ins, somit)
    IN  [f \in DOMAIN p \ u |-> p[f]]

\* delete_fields (lines 4986-4996)
DeleteFields(ins, sfields, somit) ==
    IF ~ins THEN {}
    ELSE (IF IsNone(sfields) THEN {}
          ELSE {f \in default_fields : f \notin Values(The(sfields))})
         \cup
         (IF IsNone(somit) THEN {}
          ELSE {f \in default_fields : f \in The(somit)})

\* whenMatched of the sample $merge for skip_existing=False
WhenMatchedSample(root, new, ins, sfields, somit, ml, ow) ==
    _merge_docs(SampleSchema, ml, sfields, somit,
                DeleteFields(ins, sfields, somit), ow, root, new)

----------------------------------------------------------------------------
(* SpecDocs: one destination document and one source document with the same
   key; the source document runs through the sample pipeline and the
   whenMatched expression. *)

Tags == {"t1", "t2"}
LabelIds == {1, 2}
\* labels of the destination elements and of the incoming elements
OldElements == [id : LabelIds, label : {"a"}]
NewElements == [id : LabelIds, label : {"b", "c"}]

SeqsUpTo(S, n) == UNION {[1..k -> S] : k \in 0..n}

ScalarValues == {Missing, Null, Val(1), Val(2)}
ListValues == {Missing, Null} \cup {List(s) : s \in SeqsUpTo(Tags, MaxLen)}
LabelValues(a, E) ==
    {Missing, Null} \cup {Labels(a, s) : s \in SeqsUpTo(E, MaxLen)}

\* the field under test and the values it takes on the two sides
FieldCases ==
    {<<"foo", x, y>> : x \in ScalarValues, y \in ScalarValues}
    \cup {<<"tags", x, y>> : x \in ListValues, y \in ListValues}
    \cup {<<"dets", x, y>> : x \in LabelValues("x", OldElements),
                           y \in LabelValues("y", NewElements)}

DocWith(id, f, x) ==
    ObjectOf([g \in {"_id", "filepath", f} |->
                IF g = "_id" THEN Val(id)
                ELSE IF g = "filepath" THEN Val("k1") ELSE x])

\* the selections of fields under test: everything, an allow-list naming
\* the field, a deny-list naming the field
Selections(f) ==
    {<<None, None>>, <<Some(AsDict({"filepath", f})), None>>,
     <<None, Some({f})>>}

Bools == {TRUE, FALSE}

\* values of the variables a specification does not use
IdleParams ==
    /\ key_field = "filepath" /\ skip_existing = FALSE /\ insert_new = TRUE
    /\ fields = None /\ omit_fields = None
    /\ merge_lists = TRUE /\ overwrite = TRUE
IdleDocs == rootDoc = <<>> /\ srcDoc = <<>> /\ outDoc = <<>> /\ dpc = "idle"

InitDocs ==
    /\ \E c \in FieldCases : \E sel \in Selections(c[1]) :
         /\ rootDoc = DocWith(1, c[1], c[2])
         /\ srcDoc = DocWith(11, c[1], c[3])
         /\ fields = sel[1]
         /\ omit_fields = sel[2]
    /\ key_field = "filepath"
    /\ skip_existing = FALSE
    /\ insert_new \in Bools
    /\ merge_lists \in Bools
    /\ overwrite \in Bools
    /\ outDoc = <<>>
    /\ dpc = "new"

\* $$new for the matched document
NewDoc ==
    SamplePipelineDoc(srcDoc, KeyField(key_field), insert_new,
                      SampleFields(fields, omit_fields, FALSE),
                      SampleOmit(fields, omit_fields, FALSE))

\* the $merge stage finds the destination document with the same key and
\* replaces it by the result of whenMatched
MergeMatched ==
    /\ dpc = "new"
    /\ Get(NewDoc, KeyField(key_field)) = Get(rootDoc, KeyField(key_field))
    /\ outDoc' = WhenMatchedSample(rootDoc, NewDoc, insert_new,
                     SampleFields(fields, omit_fields, FALSE),
                     SampleOmit(fields, omit_fields, FALSE),
                     merge_lists, overwrite)
    /\ dpc' = "merged"
    /\ UNCHANGED <<rootDoc, srcDoc>>

----------------------------------------------------------------------------
(* MongoDB collections are sets of documents.  The $merge stage and the
   helpers of the pipeline merge work on them. *)

\* the parameters of one merge after the preparation of lines 4847-4892
Params(kf, skip, ins, fieldsOpt, omitOpt, ml, ow, is_video) ==
    [kf |-> KeyField(kf), skip |-> skip, ins |-> ins,
     sf |-> SampleFields(fieldsOpt, omitOpt, is_video),
     so |-> SampleOmit(fieldsOpt, omitOpt, is_video),
     ff |-> FrameFields(fieldsOpt, omitOpt, is_video),
     fo |-> FrameOmit(fieldsOpt, omitOpt, is_video),
     ml |-> ml, ow |-> ow]

\* the documents of a collection in natural (insertion, i.e. _id) order
RECURSIVE InOrder(_)
InOrder(S) ==
    IF S = {} THEN <<>>
    ELSE LET d == CHOOSE x \in S : \A y \in S : x["_id"].v <= y["_id"].v
         IN  <<d>> \o InOrder(S \ {d})

\* the frames of one sample, sorted by frame number ($lookup + $sort)
RECURSIVE ByFrameNumber(_)
ByFrameNumber(S) ==
    IF S = {} THEN <<>>
    ELSE LET d == CHOOSE x \in S :
                    \A y \in S : x["frame_number"].v <= y["frame_number"].v
         IN  <<d>> \o ByFrameNumber(S \ {d})

WithId(d, id) == MergeObjects2(d, [_id |-> Val(id)])

\* One document of the sample pipeline arriving at
\*   {"$merge": {into: dst, on: key_field, whenMatched, whenNotMatched}}.
\* st = [docs, id, err]: destination documents, next fresh _id, error so far.
MergeSampleDoc(st, d, P) ==
    IF st.err # "none" THEN st
    ELSE IF P.kf # "_id" /\ ~GtNull(Get(d, P.kf))
    THEN [st EXCEPT !.err = "MergeOnFieldMissing"]
    ELSE
      LET fresh == "_id" \notin DOMAIN d
          nd == IF fresh THEN WithId(d, st.id) ELSE d
          id2 == IF fresh THEN st.id + 1 ELSE st.id
          \* a generated _id matches no existing document
          hits == IF P.kf = "_id" /\ fresh THEN {}
                  ELSE {r \in st.docs : Get(r, P.kf) = Get(d, P.kf)}
      IN  IF hits # {}
          THEN LET r == CHOOSE x \in hits : TRUE
               IN  IF P.skip THEN st
                   ELSE [st EXCEPT !.docs =
                           (st.docs \ {r}) \cup
                           {WhenMatchedSample(r, d, P.ins, P.sf, P.so, P.ml, P.ow)}]
          ELSE IF P.ins
          THEN [st EXCEPT !.docs = st.docs \cup {nd}, !.id = id2]
          ELSE st

RECURSIVE MergeSampleDocs(_, _, _)
MergeSampleDocs(st, seq, P) ==
    IF seq = <<>> THEN st
    ELSE TheOnly({MergeSampleDocs(s1, Tail(seq), P) :
                    s1 \in {MergeSampleDoc(st, Head(seq), P)}})

\* src_dataset._aggregate(pipeline=sample_pipeline), line 5025
AggregateSamples(dstDocs, srcDocs, P, id) ==
    LET in == InOrder(srcDocs)
        piped == [i \in 1..Len(in) |->
                    SamplePipelineDoc(in[i], P.kf, P.ins, P.sf, P.so)]
    IN  MergeSampleDocs([docs |-> dstDocs, id |-> id, err |-> "none"], piped, P)

\* the frame pipeline applied to one frame document before $merge
\* (lines 5054-5080)
FramePipelineDoc(f, P) ==
    LET projected ==
          IF IsNone(P.ff) THEN f
          ELSE
            LET fd == The(P.ff)
                same == {k \in DOMAIN fd : DbField(k) = DbField(fd[k])}
                forced == {"_merge_key", "frame_number"}
                incl == {DbField(k) : k \in same} \cup forced
                targets == {DbField(fd[k]) : k \in DOMAIN fd \ same} \ forced
                sourceOf(v) ==
                    DbField(CHOOSE k \in DOMAIN fd \ same : DbField(fd[k]) = v)
            IN  ObjectOf([g \in {"_id"} \cup incl \cup targets |->
                            IF g \in targets THEN Get(f, sourceOf(g))
                            ELSE Get(f, g)])
        omit == ((IF IsNone(P.fo) THEN {} ELSE The(P.fo))
                   \cup {"id", "_sample_id"}) \ {"_merge_key", "frame_number"}
        unset == {DbField(g) : g \in omit}
    IN  [g \in DOMAIN projected \ unset |-> projected[g]]

\* whenMatched of the frame $merge for skip_existing=False
WhenMatchedFrame(root, new, P) ==
    _merge_docs(FrameSchema, P.ml, P.ff, P.fo, {}, P.ow, root, new)

\* the unique index [("_sample_id", 1), ("frame_number", 1)]: a missing
\* _sample_id is indexed as null
SameFrameKey(a, b) ==
    /\ Value(a, "_sample_id") = Value(b, "_sample_id")
    /\ Value(a, "frame_number") = Value(b, "frame_number")

\* One frame document arriving at {"$merge": {into: dst frames,
\*   on: [frame_key_field, "frame_number"], whenNotMatched: "insert"}}
MergeFrameDoc(st, d, P, unique) ==
    IF st.err # "none" THEN st
    ELSE
      LET hits == {r \in st.docs :
                     /\ Get(r, "_merge_key") = Get(d, "_merge_key")
                     /\ Get(r, "frame_number") = Get(d, "frame_number")}
          nd == WithId(d, st.id)
      IN  IF hits # {}
          THEN LET r == CHOOSE x \in hits : TRUE
               IN  IF P.skip THEN st
                   ELSE [st EXCEPT !.docs =
                           (st.docs \ {r}) \cup {WhenMatchedFrame(r, d, P)}]
          ELSE IF unique /\ \E r \in st.docs : SameFrameKey(r, nd)
          THEN [st EXCEPT !.err = "DuplicateKeyError"]
          ELSE [st EXCEPT !.docs = st.docs \cup {nd}, !.id = st.id + 1]

RECURSIVE MergeFrameDocs(_, _, _, _)
MergeFrameDocs(st, seq, P, unique) ==
    IF seq = <<>> THEN st
    ELSE TheOnly({MergeFrameDocs(s1, Tail(seq), P, unique) :
                    s1 \in {MergeFrameDoc(st, Head(seq), P, unique)}})

\* _pipeline(frames_only=True): the frames of every sample of the source,
\* sample by sample, each sample's frames by frame number
RECURSIVE FramesOnly(_, _)
FramesOnly(sampleSeq, frameDocs) ==
    IF sampleSeq = <<>> THEN <<>>
    ELSE ByFrameNumber({f \in frameDocs :
                          Get(f, "_sample_id") = Head(sampleSeq)["_id"]})
         \o FramesOnly(Tail(sampleSeq), frameDocs)

\* src_dataset._aggregate(pipeline=frame_pipeline), line 5106
AggregateFrames(dstFrames, srcSamples, srcFrames, P, id, unique) ==
    LET in == FramesOnly(InOrder(srcSamples), srcFrames)
        piped == [i \in 1..Len(in) |-> FramePipelineDoc(in[i], P)]
    IN  MergeFrameDocs([docs |-> dstFrames, id |-> id, err |-> "none"],
                       piped, P, unique)

\* _index_frames: every frame of a sample of the collection is stamped with
\* the key of its parent sample
_index_frames(sampleDocs, frameDocs, kf) ==
    {IF \E x \in sampleDocs : x["_id"] = Get(f, "_sample_id")
     THEN LET x == CHOOSE y \in sampleDocs : y["_id"] = Get(f, "_sample_id")
          IN  MergeObjects2(f, [_merge_key |-> Value(x, kf)])
     ELSE f
     : f \in frameDocs}

\* _finalize_frames: [frames, err]; a merge key without a destination sample
\* raises KeyError while the list of updates is built, before any write
_finalize_frames(sampleDocs, frameDocs, kf) ==
    LET keys == {Get(f, "_merge_key") : f \in {g \in frameDocs : GtNull(Get(g, "_merge_key"))}}
        known == {Get(x, kf) : x \in sampleDocs}
        idOf(k) == (CHOOSE x \in sampleDocs : Get(x, kf) = k)["_id"]
    IN  IF ~(keys \subseteq known)
        THEN [err |-> "KeyError", frames |-> frameDocs]
        ELSE [err |-> "none",
              frames |-> {IF Get(f, "_merge_key") \in keys
                          THEN MergeObjects2(f, [_sample_id |-> idOf(Get(f, "_merge_key"))])
                          ELSE f : f \in frameDocs}]

\* {"$unset": {frame_key_field: ""}} on every frame
KeepMergeKey(frameDocs) == frameDocs
UnsetMergeKey(frameDocs) ==
    {[g \in DOMAIN f \ {"_merge_key"} |-> f[g]] : f \in frameDocs}

----------------------------------------------------------------------------
(* Indexes.  sindex[c][f] is the index of the sample collection of dataset c
   on field f: "none", "plain" or "unique".  findex[c] is the set of indexes
   of its frame collection: "sample_frame" is the unique index on
   (_sample_id, frame_number) of _create_indexes, "merge_frame" the temporary
   unique index on (_merge_key, frame_number). *)

IndexedFields == {"filepath"}

HasDuplicates(docs, f) ==
    \E x \in docs : \E y \in docs : x # y /\ Value(x, f) = Value(y, f)

HasDuplicateMergeKeys(frameDocs) ==
    \E x \in frameDocs : \E y \in frameDocs :
        /\ x # y
        /\ Value(x, "_merge_key") = Value(y, "_merge_key")
        /\ Value(x, "frame_number") = Value(y, "frame_number")

\* _ensure_index(dataset, field, unique): [idx, new, dropped, err]
_ensure_index(cur, docs, field, unique) ==
    LET current_unique == cur = "unique"
        satisfied == cur # "none" /\ (current_unique \/ current_unique = unique)
        dropped == cur # "none" /\ ~satisfied
    IN  IF satisfied
        THEN [idx |-> cur, new |-> FALSE, dropped |-> FALSE, err |-> "none"]
        ELSE IF HasDuplicates(docs, field)
        THEN [idx |-> "none", new |-> FALSE, dropped |-> dropped,
              err |-> "DuplicateKeyError"]
        ELSE [idx |-> "unique", new |-> TRUE, dropped |-> dropped,
              err |-> "none"]

NoIx == [new_src |-> FALSE, dropped_src |-> FALSE,
         new_dst |-> FALSE, dropped_dst |-> FALSE]

(* The phases of _merge_samples_pipeline as functions of the database
   w = [samples, frames, sindex, findex, nextId, ix, err]; dst and src name
   the destination and the source dataset, P the prepared parameters. *)

Fail(w, e) == [w EXCEPT !.err = e]

\* lines 4854-4863 and 4916-4928: key indexes, frame stamps, frame indexes
PrepareMerge(w, dst, src, P, is_video) ==
    LET es == IF P.kf = "_id"
              THEN [idx |-> "none", new |-> FALSE, dropped |-> FALSE, err |-> "none"]
              ELSE _ensure_index(w.sindex[src][P.kf], w.samples[src], P.kf, TRUE)
        si1 == IF P.kf = "_id" THEN w.sindex
               ELSE [w.sindex EXCEPT ![src][P.kf] = es.idx]
        ed == IF P.kf = "_id"
              THEN [idx |-> "none", new |-> FALSE, dropped |-> FALSE, err |-> "none"]
              ELSE _ensure_index(si1[dst][P.kf], w.samples[dst], P.kf, TRUE)
        si2 == IF P.kf = "_id" THEN si1 ELSE [si1 EXCEPT ![dst][P.kf] = ed.idx]
        ix2 == [new_src |-> es.new, dropped_src |-> es.dropped,
                new_dst |-> ed.new, dropped_dst |-> ed.dropped]
        fr1 == [w.frames EXCEPT
                  ![dst] = _index_frames(w.samples[dst], w.frames[dst], P.kf)]
        fr2 == [fr1 EXCEPT
                  ![src] = _index_frames(w.samples[src], fr1[src], P.kf)]
    IN  IF es.err # "none"
        THEN [w EXCEPT !.sindex = si1, !.err = es.err]
        ELSE IF ed.err # "none"
        THEN [w EXCEPT !.sindex = si2, !.err = ed.err,
                       !.ix = [ix2 EXCEPT !.new_dst = FALSE]]
        ELSE IF ~is_video
        THEN [w EXCEPT !.sindex = si2, !.ix = ix2]
        ELSE IF HasDuplicateMergeKeys(fr2[dst])
        THEN [w EXCEPT !.sindex = si2, !.ix = ix2, !.frames = fr2,
                       !.err = "DuplicateKeyError"]
        ELSE IF HasDuplicateMergeKeys(fr2[src])
        THEN [w EXCEPT !.sindex = si2, !.ix = ix2, !.frames = fr2,
                       !.findex[dst] = @ \cup {"merge_frame"},
                       !.err = "DuplicateKeyError"]
        ELSE [w EXCEPT !.sindex = si2, !.ix = ix2, !.frames = fr2,
                       !.findex = [c \in DOMAIN w.findex |->
                                     IF c \in {dst, src}
                                     THEN w.findex[c] \cup {"merge_frame"}
                                     ELSE w.findex[c]]]

\* lines 5027-5039: drop the key indexes the merge created, recreate the
\* non-unique ones it replaced
LeaveIndexes(si, ixf, dst, src, kf) == si
CleanupIndexes(si, ixf, dst, src, kf) ==
    LET s1 == IF ixf.new_src THEN [si EXCEPT ![src][kf] = "none"] ELSE si
        s2 == IF ixf.dropped_src THEN [s1 EXCEPT ![src][kf] = "plain"] ELSE s1
        s3 == IF ixf.new_dst THEN [s2 EXCEPT ![dst][kf] = "none"] ELSE s2
        s4 == IF ixf.dropped_dst THEN [s3 EXCEPT ![dst][kf] = "plain"] ELSE s3
    IN  s4

\* lines 4934-5039: the sample $merge, then the index cleanup
MergeSamplesPhase(w, dst, src, P) ==
    LET r == AggregateSamples(w.samples[dst], w.samples[src], P, w.nextId)
        w1 == [w EXCEPT !.samples[dst] = r.docs, !.nextId = r.id]
    IN  IF r.err # "none" THEN Fail(w1, r.err)
        ELSE [w1 EXCEPT !.sindex = CleanupIndexes(w.sindex, w.ix, dst, src, P.kf)]

\* lines 5045-5106: the frame $merge
MergeFramesPhase(w, dst, src, P) ==
    LET r == AggregateFrames(w.frames[dst], w.samples[src], w.frames[src], P,
                             w.nextId, "sample_frame" \in w.findex[dst])
        w1 == [w EXCEPT !.frames[dst] = r.docs, !.nextId = r.id]
    IN  IF r.err # "none" THEN Fail(w1, r.err) ELSE w1

\* lines 5108-5113: drop the temporary frame indexes, rewrite _sample_id
FinalizePhase(w, dst, src, P) ==
    LET fi == [c \in DOMAIN w.findex |->
                 IF c \in {dst, src} THEN w.findex[c] \ {"merge_frame"}
                 ELSE w.findex[c]]
        r == _finalize_frames(w.samples[dst], w.frames[dst], P.kf)
        w1 == [w EXCEPT !.findex = fi, !.frames[dst] = r.frames]
    IN  IF r.err # "none" THEN Fail(w1, r.err) ELSE w1

\* lines 5115-5118: remove the merge key from both frame collections
CleanupPhase(w, dst, src) ==
    LET f1 == [w.frames EXCEPT ![src] = UnsetMergeKey(@)]
        f2 == [f1 EXCEPT ![dst] = UnsetMergeKey(@)]
    IN  [w EXCEPT !.frames = f2]

----------------------------------------------------------------------------
(* The database as one value, and back. *)

\* datasets are numbered in the order of their construction
DatasetIds == 1..MaxInstances
DatasetNames == {"a", "b"}

World ==
    [samples |-> samples, frames |-> frames, sindex |-> sindex,
     findex |-> findex, nextId |-> nextId, ix |-> ix, err |-> err,
     schema |-> field_schema]

Becomes(w) ==
    \E v \in {w} :
        /\ samples' = v.samples
        /\ frames' = v.frames
        /\ sindex' = v.sindex
        /\ findex' = v.findex
        /\ nextId' = v.nextId
        /\ ix' = v.ix
        /\ err' = v.err
        /\ field_schema' = v.schema

\* the parameters of the merge in progress
P == Params(key_field, skip_existing, insert_new, fields, omit_fields,
            merge_lists, overwrite, media_type[1] = "video")

----------------------------------------------------------------------------
(* SpecMerge: merge_samples(src, ...) on the video dataset 1, with dataset 2
   or dataset 1 itself as the source, one phase of _merge_samples_pipeline
   per step. *)

Keys == {1, 2}
Filepath(i) == IF i = 1 THEN "k1" ELSE IF i = 2 THEN "k2" ELSE "k3"
FirstNewId == 1000

\* the documents of the two datasets before the merge
DstSample(i) ==
    [_id |-> Val(i), filepath |-> Val(Filepath(i)), foo |-> Val(1),
     tags |-> List(<<"t1">>)]
SrcSample(i, cloned) ==
    [_id |-> Val(IF cloned THEN i ELSE 10 + i), filepath |-> Val(Filepath(i)),
     foo |-> Val(2), tags |-> List(<<"t2">>)]
DstFrame(i, n) ==
    [_id |-> Val(100 + 10 * i + n), _sample_id |-> Val(i),
     frame_number |-> Val(n), fval |-> Val(1)]
SrcFrame(i, n, cloned) ==
    [_id |-> Val(200 + 10 * i + n),
     _sample_id |-> Val(IF cloned THEN i ELSE 10 + i),
     frame_number |-> Val(n), fval |-> Val(2)]

FrameNumbers == 1..MaxFrames

\* the field selections tried
FieldChoices == {None, Some(AsDict({"foo"}))}
OmitChoices == {None, Some({"foo"})}

\* two constructed datasets "a" and "b"
TwoDatasets ==
    /\ ds = <<[name |-> "a", _deleted |-> FALSE],
              [name |-> "b", _deleted |-> FALSE]>>
    /\ registry = [n \in DatasetNames |-> IF n = "a" THEN 1 ELSE 2]
    /\ res = [op |-> "none", arg |-> "", pre |-> FALSE, out |-> "ok"]
    /\ everDeleted = {}

InitMerge ==
    /\ \E dk \in SUBSET Keys, sk \in SUBSET Keys, cloned \in Bools, self \in Bools :
       \E df \in [dk -> SUBSET FrameNumbers], sf \in [sk -> SUBSET FrameNumbers] :
         /\ self => sk = {} /\ ~cloned
         /\ srcName = IF self THEN 1 ELSE 2
         /\ samples = [n \in DatasetIds |->
                         IF n = 1 THEN {DstSample(i) : i \in dk}
                         ELSE IF n = 2 THEN {SrcSample(i, cloned) : i \in sk}
                         ELSE {}]
         /\ frames = [n \in DatasetIds |->
                        IF n = 1
                        THEN UNION {{DstFrame(i, k) : k \in df[i]} : i \in dk}
                        ELSE IF n = 2
                        THEN UNION {{SrcFrame(i, k, cloned) : k \in sf[i]} : i \in sk}
                        ELSE {}]
    /\ media_type = [n \in DatasetIds |-> IF n <= 2 THEN "video" ELSE "none"]
    /\ sindex = [n \in DatasetIds |->
                  [f \in IndexedFields |-> IF n <= 2 THEN "plain" ELSE "none"]]
    /\ findex = [n \in DatasetIds |-> IF n <= 2 THEN {"sample_frame"} ELSE {}]
    /\ key_field \in {"filepath", "id"}
    /\ skip_existing \in Bools
    /\ insert_new \in Bools
    /\ fields \in FieldChoices
    /\ omit_fields \in OmitChoices
    /\ merge_lists \in Bools
    /\ overwrite \in Bools
    /\ pc = "start"
    /\ err = "none"
    /\ nextId = FirstNewId
    /\ ix = NoIx
    /\ pre = [samples |-> samples[1], frames |-> frames[1]]
    /\ field_schema = [n \in DatasetIds |-> FooSchema]
    /\ IdleTools
    /\ IdleDocs
    /\ TwoDatasets

\* a phase ends the merge when it raises
Goto(w, next) == pc' = IF w.err # "none" THEN "raised" ELSE next

Prepare ==
    /\ pc = "start"
    /\ \E w \in {PrepareMerge(World, 1, srcName, P, TRUE)} :
         Becomes(w) /\ Goto(w, "stamped")

MergeSamples ==
    /\ pc = "stamped"
    /\ \E w \in {MergeSamplesPhase(World, 1, srcName, P)} :
         Becomes(w) /\ Goto(w, "samples_merged")

MergeFrames ==
    /\ pc = "samples_merged"
    /\ \E w \in {MergeFramesPhase(World, 1, srcName, P)} :
         Becomes(w) /\ Goto(w, "frames_merged")

Finalize ==
    /\ pc = "frames_merged"
    /\ \E w \in {FinalizePhase(World, 1, srcName, P)} :
         Becomes(w) /\ Goto(w, "finalized")

Cleanup ==
    /\ pc = "finalized"
    /\ \E w \in {CleanupPhase(World, 1, srcName)} :
         Becomes(w) /\ Goto(w, "done")

NextMerge ==
    /\ \/ Prepare
       \/ MergeSamples
       \/ MergeFrames
       \/ Finalize
       \/ Cleanup
    /\ UNCHANGED <<paramVars, docVars, lifeVars, srcName, pre, toolVars>>

SpecMerge == InitMerge /\ [][NextMerge]_vars

----------------------------------------------------------------------------
(* Properties of SpecMerge *)

\* merge_samples has ended: it returned, or a phase raised
MergeEnded == pc \in {"done", "raised"}

FramesOf(frameDocs, s) == {f \in frameDocs : Get(f, "_sample_id") = s["_id"]}

\* every frame of dataset n belongs to a sample of dataset n
FramesResolve(n) ==
    \A f \in frames[n] : \E s \in samples[n] : Get(f, "_sample_id") = s["_id"]

\* C1: once a merge of two video datasets has ended, every frame of the
\* destination has the _sample_id of a sample of the destination, whatever
\* the parameters of the merge.
C1_FramesResolveAfterMerge == MergeEnded => FramesResolve(1)

\* C2: merging a dataset into itself on the sample id with overwrite=True and
\* skip_existing=False returns normally and leaves the samples and the frames
\* of the dataset as they were.
C2_SelfMergeIsIdentity ==
    (/\ MergeEnded
     /\ srcName = 1
     /\ key_field = "id" /\ overwrite /\ ~skip_existing)
    => /\ pc = "done"
       /\ samples[1] = pre.samples
       /\ frames[1] = pre.frames

\* C10: with skip_existing=True a destination sample whose key matches a
\* source sample is left as it was, and so is its set of frames.
C10_SkipExistingLeavesMatched ==
    (MergeEnded /\ skip_existing)
    => \A s \in pre.samples :
         (\E x \in samples[srcName] : Get(x, P.kf) = Get(s, P.kf))
         => /\ s \in samples[1]
            /\ FramesOf(UnsetMergeKey(frames[1]), s) = FramesOf(pre.frames, s)

----------------------------------------------------------------------------
(* SpecDocs *)

IdleCalls ==
    /\ srcName = 2 /\ pc = "idle" /\ err = "none" /\ nextId = FirstNewId
    /\ ix = NoIx /\ pre = [samples |-> {}, frames |-> {}]

IdleMerge ==
    /\ IdleCalls
    /\ IdleTools

\* two datasets that hold no samples yet
EmptyCollections ==
    /\ samples = [n \in DatasetIds |-> {}]
    /\ frames = [n \in DatasetIds |-> {}]
    /\ sindex = [n \in DatasetIds |->
                  [f \in IndexedFields |-> IF n <= 2 THEN "plain" ELSE "none"]]
    /\ findex = [n \in DatasetIds |-> IF n <= 2 THEN {"sample_frame"} ELSE {}]
    /\ media_type = [n \in DatasetIds |-> "none"]
    /\ field_schema = [n \in DatasetIds |-> DefaultSchema]

InitDocsAll ==
    /\ InitDocs
    /\ TwoDatasets
    /\ EmptyCollections
    /\ IdleMerge

NextDocs == MergeMatched /\ UNCHANGED <<paramVars, lifeVars, mergeVars, toolVars>>

SpecDocs == InitDocsAll /\ [][NextDocs]_vars

\* the caller selected field f for the merge
SelectedForMerge(f) ==
    /\ IsNone(fields) \/ f \in Values(The(fields))
    /\ IsNone(omit_fields) \/ f \notin The(omit_fields)

Merged == dpc = "merged"

\* C7: for a label-list field present on both sides the merged element list
\* is, with overwrite, the existing elements whose id is not among the
\* incoming ones followed by all incoming elements, and without overwrite all
\* existing elements followed by the incoming ones whose id is not among the
\* existing ones; orders are kept.
C7_LabelListMerge ==
    (/\ Merged /\ merge_lists /\ SelectedForMerge("dets")
     /\ GtNull(Get(rootDoc, "dets")) /\ GtNull(Get(NewDoc, "dets")))
    => LET old == rootDoc["dets"].v
           inc == NewDoc["dets"].v
       IN  Value(outDoc, "dets").v =
             IF overwrite
             THEN SelectSeq(old, LAMBDA e : \A i \in 1..Len(inc) : inc[i].id # e.id)
                  \o inc
             ELSE old \o
                  SelectSeq(inc, LAMBDA e : \A i \in 1..Len(old) : old[i].id # e.id)

\* the example of the specification: [{1,a}] merged with [{1,b},{2,c}]
LabelExample ==
    /\ Merged /\ merge_lists /\ SelectedForMerge("dets")
    /\ Value(rootDoc, "dets") = Labels("x", <<[id |-> 1, label |-> "a"]>>)
    /\ Value(NewDoc, "dets") =
         Labels("y", <<[id |-> 1, label |-> "b"], [id |-> 2, label |-> "c"]>>)

C7_Witness ==
    /\ LabelExample
    /\ overwrite
    /\ Value(outDoc, "dets").v =
         <<[id |-> 1, label |-> "b"], [id |-> 2, label |-> "c"]>>

\* the fields merged as a whole
NonListFields ==
    {"foo", "filepath"} \cup (IF merge_lists THEN {} ELSE {"tags", "dets"})

\* C8: a non-list field of a matched document gets, with overwrite, the
\* incoming value unless that is null, and without overwrite the existing
\* value unless that is null; the other side's value fills in.
C8_ScalarMerge ==
    Merged =>
      \A f \in NonListFields :
        SelectedForMerge(f) =>
          Value(outDoc, f) =
            IF overwrite
            THEN (IF GtNull(Get(NewDoc, f)) THEN NewDoc[f] ELSE Value(rootDoc, f))
            ELSE (IF GtNull(Get(rootDoc, f)) THEN rootDoc[f] ELSE Value(NewDoc, f))

\* an incoming null met an existing value, with overwrite
C8_Witness ==
    /\ Merged /\ overwrite /\ SelectedForMerge("foo")
    /\ "foo" \in DOMAIN NewDoc /\ NewDoc["foo"] = Null
    /\ Value(rootDoc, "foo") = Val(1)
    /\ Value(outDoc, "foo") = Val(1)

\* C9: with merge_lists a plain list field gets the other side's list when
\* one side is absent or null, else the existing list followed by the
\* incoming elements that are not in the existing list, for both values of
\* overwrite.
C9_PlainListMerge ==
    (Merged /\ merge_lists /\ SelectedForMerge("tags"))
    => LET old == Value(rootDoc, "tags")
           inc == Value(NewDoc, "tags")
       IN  Value(outDoc, "tags") =
             IF old = Null THEN inc
             ELSE IF inc = Null THEN old
             ELSE List(old.v \o SelectSeq(inc.v,
                         LAMBDA x : \A i \in 1..Len(old.v) : old.v[i] # x))

\* a union that keeps the existing order and appends one new element
C9_Witness ==
    /\ Merged /\ merge_lists /\ overwrite /\ SelectedForMerge("tags")
    /\ Value(rootDoc, "tags") = List(<<"t2", "t1">>)
    /\ Value(NewDoc, "tags") = List(<<"t1">>)
    /\ Value(outDoc, "tags") = List(<<"t2", "t1">>)

----------------------------------------------------------------------------
(* SpecLife: datasets are constructed, read, filled, merged, emptied and
   deleted.  Every action is one call of the public interface. *)

MediaTypes == {"image", "video"}

\* the samples a caller adds; the media type of a sample follows from its file
NewSamples ==
    {[filepath |-> "k1", media_type |-> "image", fields |-> <<>>,
      frames |-> <<>>],
     [filepath |-> "k2", media_type |-> "video", fields |-> <<>>,
      frames |-> <<>>]}

\* the attributes read in the model
AlwaysReadable == {"name", "deleted", "_deleted", "_doc"}
DunderNames == {"__class__"}
OtherNames == {"count"}
AttributeNames == AlwaysReadable \cup DunderNames \cup OtherNames
StartsWithDunder(name) == name \in DunderNames

\* Dataset.__getattribute__ on the instance self: the outcome of the lookup
GetattributeIgnoresDeleted(self, name) == "ok"
__getattribute__(self, name) ==
    IF StartsWithDunder(name) \/ name \in AlwaysReadable THEN "ok"
    ELSE IF self._deleted THEN "Deleted"
    ELSE "ok"

\* the outcome of the last call: the operation, the attribute read if it was
\* a read, whether delete() had completed on the instance before the call,
\* and "ok" or the error raised
Result(op, i, arg, out) ==
    res' = [op |-> op, arg |-> arg, pre |-> i \in everDeleted, out |-> out]

Constructed == 1..Len(ds)

\* a dataset document with this name is in the database
dataset_exists(name) == \E i \in Constructed : ds[i].name = name /\ ~ds[i]._deleted

\* Dataset.clear on the database w: both collections are dropped
clear(w, i) ==
    [w EXCEPT !.samples[i] = {}, !.frames[i] = {},
              !.sindex[i] = [f \in IndexedFields |-> "none"],
              !.findex[i] = {}]

\* _create_indexes
_create_indexes(w, i) ==
    [w EXCEPT !.sindex[i] = [f \in IndexedFields |-> "plain"],
              !.findex[i] = {"sample_frame"}]

\* _create_dataset: new collections, the dataset document with the default
\* fields, and the indexes
_create_dataset(w, k) ==
    _create_indexes([clear(w, k) EXCEPT !.schema[k] = DefaultSchema], k)

\* Dataset.__len__ as the truth value of a dataset
NeverHoldsSamples(docs) == FALSE
HoldsSamples(docs) == docs # {}

\* Dataset.delete, last line: the instance is flagged
DeleteKeepsUsable(d) == d
MarkDeleted(d) == [d EXCEPT !._deleted = TRUE]

\* the database and the outcome left when a call ends
Ends(w, op, i, arg, out) ==
    /\ Becomes([w EXCEPT !.err = "none", !.ix = NoIx])
    /\ Result(op, i, arg, out)

Unchanged(op, i, arg, out) ==
    /\ Result(op, i, arg, out)
    /\ UNCHANGED <<ds, registry, media_type, everDeleted, mergeVars>>

InitLife ==
    /\ ds = <<>>
    /\ registry = [n \in DatasetNames |-> 0]
    /\ res = [op |-> "none", arg |-> "", pre |-> FALSE, out |-> "ok"]
    /\ everDeleted = {}
    /\ samples = [n \in DatasetIds |-> {}]
    /\ frames = [n \in DatasetIds |-> {}]
    /\ sindex = [n \in DatasetIds |-> [f \in IndexedFields |-> "none"]]
    /\ findex = [n \in DatasetIds |-> {}]
    /\ media_type = [n \in DatasetIds |-> "none"]
    /\ field_schema = [n \in DatasetIds |-> DefaultSchema]
    /\ IdleMerge
    /\ IdleParams
    /\ IdleDocs

\* the singleton by name: a lookup of a name answers with the instance
\* registered under it while that instance is not deleted
Registered(n, create) ==
    ~create /\ registry[n] # 0 /\ ~ds[registry[n]]._deleted

\* Dataset(name, overwrite=ow, _create=create); load_dataset(name) is
\* Dataset(name, _create=False)
Construct(n, create, ow) ==
    LET j == registry[n]
        reuse == Registered(n, create)
        replaced == ow /\ dataset_exists(n)
        ds1 == IF replaced THEN [ds EXCEPT ![j] = MarkDeleted(@)] ELSE ds
        w1 == IF replaced THEN clear(World, j) ELSE World
        taken == dataset_exists(n) /\ ~replaced
        k == Len(ds) + 1
        made == [name |-> n, _deleted |-> FALSE]
    IN  /\ create \/ ~ow
        /\ reuse \/ k <= MaxInstances
        /\ IF reuse
           THEN Unchanged("construct", j, "", "ok")
           ELSE /\ everDeleted' = IF replaced THEN everDeleted \cup {j}
                                  ELSE everDeleted
                /\ UNCHANGED srcName /\ UNCHANGED pc /\ UNCHANGED pre
                /\ IF create /\ taken
                   THEN /\ Result("construct", 0, "", "AlreadyExists")
                        /\ UNCHANGED <<ds, registry, media_type>>
                        /\ Becomes(World)
                   ELSE IF ~create
                   THEN /\ Result("construct", 0, "", "NotFound")
                        /\ UNCHANGED <<ds, registry, media_type>>
                        /\ Becomes(World)
                   ELSE /\ ds' = Append(ds1, made)
                        /\ registry' = [registry EXCEPT ![n] = k]
                        /\ media_type' = [media_type EXCEPT ![k] = "none"]
                        /\ Becomes(_create_dataset(w1, k))
                        /\ Result("construct", k, "", "ok")

\* reading attribute a of instance i
GetAttr(i, a) ==
    /\ i \in Constructed
    /\ Unchanged("getattr", i, a, __getattribute__(ds[i], a))

\* dataset.media_type = m
SetMediaType(i, m) ==
    /\ i \in Constructed
    /\ UNCHANGED <<ds, registry, everDeleted, mergeVars>>
    /\ LET out == IF __getattribute__(ds[i], "media_type") # "ok" THEN "Deleted"
                  ELSE IF HoldsSamples(samples[i]) THEN "ValueError"
                  ELSE IF m \notin MediaTypes THEN "ValueError"
                  ELSE "ok"
       IN  /\ Result("set_media_type", i, "", out)
           /\ media_type' = IF out = "ok" THEN [media_type EXCEPT ![i] = m]
                            ELSE media_type

\* A sample in memory is [filepath, media_type, fields, frames]: fields maps
\* the names of its other fields to their values (None is Null), frames is
\* the sequence of its frame documents in frame order.

\* a value a caller assigns, with the field type that is implied by it
Typed(ty, x) == [t |-> "val", v |-> x, ty |-> ty]

\* add_implied_field(field_name, value): the type declared for the value
ImpliedType(value) == value.ty

\* field.validate(value) of a declared field
FieldValidates(ty, value) == "ty" \in DOMAIN value => value.ty = ty

\* the order in which the fields of a document are visited
FieldOrder == <<"filepath", "tags", "frame_number", "foo", "bar", "fval">>
FieldNames(d) == SelectSeq(FieldOrder, LAMBDA f : f \in DOMAIN d)

\* sample.to_mongo_dict() with the _id that insert_many gives it
to_mongo_dict(s, id) ==
    MergeObjects2([_id |-> Val(id), filepath |-> Val(s.filepath),
                   _media_type |-> Val(s.media_type)], s.fields)

\* insert_many: the documents are inserted in order until one violates a
\* unique index
RECURSIVE insert_many(_, _, _)
insert_many(w, i, batch) ==
    IF batch = <<>> \/ w.err # "none" THEN w
    ELSE LET s == Head(batch)
             d == to_mongo_dict(s, w.nextId)
             dup == /\ w.sindex[i]["filepath"] = "unique"
                    /\ \E x \in w.samples[i] : x["filepath"] = d["filepath"]
         IN  IF dup THEN Fail(w, "ValueError")
             ELSE TheOnly({insert_many(w1, i, Tail(batch)) :
                             w1 \in {[w EXCEPT !.samples[i] = @ \cup {d},
                                               !.nextId = @ + 1]}})

\* sample.frames.save() for the samples of a batch whose first _id is id:
\* the frame documents that reach the frame collection
RECURSIVE FramesSaved(_, _)
FramesSaved(batch, id) ==
    IF batch = <<>> THEN {}
    ELSE {MergeObjects2(Head(batch).frames[n],
                        [_id |-> Val(10 * id + n), _sample_id |-> Val(id)]) :
            n \in 1..Len(Head(batch).frames)}
         \cup FramesSaved(Tail(batch), id + 1)

\* Dataset._validate_media_type
_validate_media_type(mt, s) == mt = s.media_type

\* a loop that declares nothing
ExpandNothing(sch, d, names) == sch

\* the loop over the fields of one document in _expand_schema and
\* _expand_frame_schema: undeclared fields with a value are declared
RECURSIVE ExpandFields(_, _, _)
ExpandFields(sch, d, names) ==
    IF names = <<>> THEN sch
    ELSE LET f == Head(names)
             skip == f = "_id" \/ f \in DOMAIN sch \/ d[f] = Null
         IN  ExpandFields(IF skip THEN sch
                          ELSE Declared(sch, f, ImpliedType(d[f])),
                          d, Tail(names))

\* Dataset._expand_frame_schema(sample.frames)
RECURSIVE _expand_frame_schema(_, _)
_expand_frame_schema(fsch, frs) ==
    IF frs = <<>> THEN fsch
    ELSE _expand_frame_schema(
             ExpandFields(fsch, Head(frs), FieldNames(Head(frs))), Tail(frs))

\* Dataset._expand_schema on e = [schema, out]: the samples are visited in
\* order, and what was declared before a sample raises stays declared
RECURSIVE _expand_schema(_, _, _)
_expand_schema(e, mt, batch) ==
    IF batch = <<>> THEN e
    ELSE LET s == Head(batch)
             fsch == IF mt = "video"
                     THEN _expand_frame_schema(e.schema.frame, s.frames)
                     ELSE e.schema.frame
             ssch == ExpandFields(e.schema.sample, s.fields,
                                  FieldNames(s.fields))
         IN  IF ~_validate_media_type(mt, s)
             THEN [e EXCEPT !.out = "MediaTypeError"]
             ELSE _expand_schema([schema |-> [sample |-> ssch, frame |-> fsch],
                                  out |-> "ok"], mt, Tail(batch))

\* Dataset._validate_samples: the outcome for the first sample that fails
RECURSIVE _validate_samples(_, _)
_validate_samples(sch, batch) ==
    IF batch = <<>> THEN "ok"
    ELSE LET d == Head(batch).fields
             invalid == \E f \in DOMAIN d :
                            /\ f \in DOMAIN sch /\ d[f] # Null
                            /\ ~FieldValidates(sch[f], d[f])
             non_existent_fields ==
                 {f \in DOMAIN d : f \notin DOMAIN sch /\ d[f] # Null}
         IN  IF invalid THEN "ValidationError"
             ELSE IF non_existent_fields # {} THEN "ValueError"
             ELSE _validate_samples(sch, Tail(batch))

\* Dataset._add_samples_batch on st = [w, mt, out]: the database, the media
\* type of dataset i and the outcome so far
_add_samples_batch(st, i, batch, expand_schema, validate) ==
    LET unset == st.mt = "none" /\ batch # <<>>
        refused == unset /\ HoldsSamples(st.w.samples[i])
        mt == IF unset /\ ~refused THEN batch[1].media_type ELSE st.mt
        e == IF expand_schema
             THEN _expand_schema([schema |-> st.w.schema[i], out |-> "ok"],
                                 mt, batch)
             ELSE [schema |-> st.w.schema[i], out |-> "ok"]
        v == IF validate THEN _validate_samples(e.schema.sample, batch)
             ELSE "ok"
        w0 == [st.w EXCEPT !.schema[i] = e.schema]
        saved == IF mt = "video" THEN FramesSaved(batch, st.w.nextId) ELSE {}
    IN  IF refused THEN [st EXCEPT !.out = "ValueError"]
        ELSE IF e.out # "ok" THEN [w |-> w0, mt |-> mt, out |-> e.out]
        ELSE IF v # "ok" THEN [w |-> w0, mt |-> mt, out |-> v]
        ELSE TheOnly({IF w1.err # "none"
                      THEN [w |-> w1, mt |-> mt, out |-> w1.err]
                      ELSE [w |-> [w1 EXCEPT !.frames[i] = @ \cup saved],
                            mt |-> mt, out |-> "ok"] :
                        w1 \in {insert_many(w0, i, batch)}})

\* the loop of add_samples over the batches
RECURSIVE AddBatches(_, _, _, _, _)
AddBatches(st, i, batches, expand_schema, validate) ==
    IF batches = <<>> \/ st.out # "ok" THEN st
    ELSE TheOnly({AddBatches(s1, i, Tail(batches), expand_schema, validate) :
                    s1 \in {_add_samples_batch(st, i, Head(batches),
                                               expand_schema, validate)}})

\* the ways the batcher cuts a list: it starts with one sample and at most
\* doubles the batch from one round to the next
RECURSIVE Batchings(_, _)
Batchings(list, last) ==
    IF list = <<>> THEN {<<>>}
    ELSE UNION {{<<SubSeq(list, 1, n)>> \o r :
                    r \in Batchings(SubSeq(list, n + 1, Len(list)), n)} :
                n \in {m \in 1..Len(list) : IF last = 0 THEN m = 1 ELSE m <= 2 * last}}

\* add_sample(s, ...) is the list <<s>>; add_samples(list, ...)
AddSamples(i, list, expand_schema, validate) ==
    /\ i \in Constructed
    /\ nextId + Len(list) <= FirstNewId + MaxSamples
    /\ UNCHANGED <<ds, registry, everDeleted, srcName, pc, pre>>
    /\ IF __getattribute__(ds[i], "add_samples") # "ok"
       THEN /\ Ends(World, "add_samples", i, "", "Deleted")
            /\ UNCHANGED media_type
       ELSE \E batches \in Batchings(list, 0) :
              \E st \in {AddBatches([w |-> World, mt |-> media_type[i],
                                     out |-> "ok"],
                                    i, batches, expand_schema, validate)} :
                  /\ Ends(st.w, "add_samples", i,
                          IF expand_schema THEN "expand_schema" ELSE "",
                          st.out)
                  /\ media_type' = [media_type EXCEPT ![i] = st.mt]

\* delete_samples(ids)
DeleteSamples(i, ids) ==
    /\ i \in Constructed
    /\ ids # {} /\ ids \subseteq {s["_id"] : s \in samples[i]}
    /\ UNCHANGED <<ds, registry, everDeleted, media_type, srcName, pc, pre>>
    /\ IF __getattribute__(ds[i], "delete_samples") # "ok"
       THEN Ends(World, "delete_samples", i, "", "Deleted")
       ELSE LET kept == {s \in samples[i] : s["_id"] \notin ids}
                fkept == IF media_type[i] = "video"
                         THEN {f \in frames[i] : Get(f, "_sample_id") \notin ids}
                         ELSE frames[i]
            IN  Ends([World EXCEPT !.samples[i] = kept, !.frames[i] = fkept],
                     "delete_samples", i, "", "ok")

\* clear()
Clear(i) ==
    /\ i \in Constructed
    /\ UNCHANGED <<ds, registry, everDeleted, media_type, srcName, pc, pre>>
    /\ IF __getattribute__(ds[i], "clear") # "ok"
       THEN Ends(World, "clear", i, "", "Deleted")
       ELSE Ends(clear(World, i), "clear", i, "", "ok")

\* delete()
Delete(i) ==
    /\ i \in Constructed
    /\ UNCHANGED <<registry, media_type, srcName, pc, pre>>
    /\ IF __getattribute__(ds[i], "delete") # "ok"
       THEN /\ Ends(World, "delete", i, "", "Deleted")
            /\ UNCHANGED <<ds, everDeleted>>
       ELSE /\ Ends(clear(World, i), "delete", i, "", "ok")
            /\ ds' = [ds EXCEPT ![i] = MarkDeleted(@)]
            /\ everDeleted' = everDeleted \cup {i}

\* _merge_samples_pipeline from its first phase to its last or to the first
\* phase that raises
MergeFromFrames(w2, dst, src, Q) ==
    TheOnly({IF w3.err # "none" THEN w3
             ELSE TheOnly({IF w4.err # "none" THEN w4
                           ELSE CleanupPhase(w4, dst, src) :
                             w4 \in {FinalizePhase(w3, dst, src, Q)}}) :
               w3 \in {MergeFramesPhase(w2, dst, src, Q)}})

_merge_samples_pipeline(w, dst, src, Q, is_video) ==
    TheOnly({IF w1.err # "none" THEN w1
             ELSE TheOnly({IF w2.err # "none" \/ ~is_video THEN w2
                           ELSE MergeFromFrames(w2, dst, src, Q) :
                             w2 \in {MergeSamplesPhase(w1, dst, src, Q)}}) :
               w1 \in {PrepareMerge(w, dst, src, Q, is_video)}})

\* _merge_dataset_doc, media type part: the media type of the destination
\* after it and whether it raised
_merge_dataset_doc(dst_type, dst_docs, src_type) ==
    IF dst_type = "none"
    THEN IF HoldsSamples(dst_docs) \/ src_type \notin MediaTypes
         THEN [mt |-> dst_type, out |-> "ValueError"]
         ELSE [mt |-> src_type, out |-> "ok"]
    ELSE IF src_type # dst_type /\ src_type # "none"
    THEN [mt |-> dst_type, out |-> "ValueError"]
    ELSE [mt |-> dst_type, out |-> "ok"]

\* The fields argument of merge_samples is None, a list of names or a dict
\* of renamings; the model writes a list as [kind |-> "list", items |-> names]
\* and a dict as [kind |-> "dict", items |-> pairs], both in their order.
ListArg(names) == Some([kind |-> "list", items |-> names])
DictArg(pairs) == Some([kind |-> "dict", items |-> pairs])

Range(seq) == {seq[n] : n \in 1..Len(seq)}

\* fields = {f: f for f in fields} unless it is a dict already
FieldsDict(arg) ==
    IF IsNone(arg) THEN None
    ELSE LET a == The(arg)
         IN  IF a.kind = "list" THEN Some(AsDict(Range(a.items)))
             ELSE Some([k \in {q[1] : q \in Range(a.items)} |->
                          (CHOOSE q \in Range(a.items) : q[1] = k)[2]])

\* get_field_schema() of the source: private fields are not listed
PublicSchema(sch) ==
    [f \in DOMAIN sch \ {"_media_type", "_rand"} |-> sch[f]]

\* _merge_dataset_doc, lines 4583-4597: the part of a source schema that is
\* merged; strip says whether frame paths are split off (video)
SchemaToMerge(srcSch, fieldsOpt, omitNames) ==
    LET s1 == [k \in DOMAIN srcSch \ omitNames |-> srcSch[k]]
    IN  IF IsNone(fieldsOpt) THEN s1
        ELSE LET fd == The(fieldsOpt)
                 keys == DOMAIN s1 \cap DOMAIN fd
             IN  [v \in {fd[k] : k \in keys} |->
                    s1[CHOOSE k \in keys : fd[k] = v]]

\* merge_field_schema(schema, expand_schema): a declared field keeps its
\* type, a field of another type is refused, a new field is declared only
\* when the schema may expand
merge_field_schema(dstSch, srcSch, expand_schema) ==
    IF \E f \in DOMAIN srcSch \cap DOMAIN dstSch : dstSch[f] # srcSch[f]
    THEN [schema |-> dstSch, out |-> "ValueError"]
    ELSE IF ~expand_schema /\ ~(DOMAIN srcSch \subseteq DOMAIN dstSch)
    THEN [schema |-> dstSch, out |-> "ValueError"]
    ELSE [schema |-> [f \in DOMAIN dstSch \cup DOMAIN srcSch |->
                        IF f \in DOMAIN dstSch THEN dstSch[f] ELSE srcSch[f]],
          out |-> "ok"]

\* _merge_dataset_doc, schema part (lines 4568-4603): the schema of the
\* destination after it and whether it raised
MergeSchemas(dst, src, fieldsOpt, omitOpt, expand_schema, is_video) ==
    LET omit == IF IsNone(omitOpt) THEN {} ELSE The(omitOpt)
        somit == IF is_video THEN {f \in omit : ~IsFramePath(f)} ELSE omit
        fomit == {StripFrames(f) : f \in {g \in omit : IsFramePath(g)}}
        sf == IF is_video THEN SampleFields(fieldsOpt, None, TRUE)
              ELSE fieldsOpt
        ff == FrameFields(fieldsOpt, None, is_video)
        ms == merge_field_schema(
                  dst.sample,
                  SchemaToMerge(PublicSchema(src.sample), sf, somit),
                  expand_schema)
        mf == merge_field_schema(
                  dst.frame, SchemaToMerge(src.frame, ff, fomit),
                  expand_schema)
    IN  IF ms.out # "ok" THEN [schema |-> dst, out |-> ms.out]
        ELSE IF ~is_video
        THEN [schema |-> [dst EXCEPT !.sample = ms.schema], out |-> "ok"]
        ELSE [schema |-> [sample |-> ms.schema, frame |-> mf.schema],
              out |-> mf.out]

\* i.merge_samples(j, key_field=kf, skip_existing=skip, insert_new=ins,
\* fields=fieldsArg, omit_fields=omitOpt, merge_lists=ml, overwrite=ow,
\* expand_schema=expand) of a collection j without a key function;
\* i.add_collection(j) is i.merge_samples(j, "id", TRUE, TRUE)
MergeSamplesCall(i, j, kf, skip, ins, fieldsArg, omitOpt, ml, ow, expand) ==
    /\ i \in Constructed /\ j \in Constructed
    /\ nextId + Cardinality(samples[j]) <= FirstNewId + MaxSamples
    /\ UNCHANGED <<ds, registry, everDeleted, srcName, pc, pre>>
    /\ IF \/ __getattribute__(ds[i], "merge_samples") # "ok"
          \/ __getattribute__(ds[j], "media_type") # "ok"
       THEN /\ Ends(World, "merge_samples", i, "", "Deleted")
            /\ UNCHANGED media_type
       ELSE \E m \in {_merge_dataset_doc(media_type[i], samples[i],
                                          media_type[j])} :
              /\ media_type' = [media_type EXCEPT ![i] = m.mt]
              /\ IF m.out # "ok"
                 THEN Ends(World, "merge_samples", i, "", m.out)
                 ELSE \E sm \in {MergeSchemas(field_schema[i], field_schema[j],
                                               FieldsDict(fieldsArg), omitOpt,
                                               expand, m.mt = "video")} :
                      \E w0 \in {[World EXCEPT !.schema[i] = sm.schema]} :
                        IF sm.out # "ok"
                        THEN Ends(w0, "merge_samples", i, "", sm.out)
                        ELSE
                      \E Q \in {Params(kf, skip, ins, FieldsDict(fieldsArg),
                                      omitOpt, ml, ow, m.mt = "video")} :
                      \E w \in {_merge_samples_pipeline(w0, i, j, Q,
                                                        m.mt = "video")} :
                        Ends(w, "merge_samples", i, "key_field",
                             IF w.err # "none" THEN w.err ELSE "ok")

----------------------------------------------------------------------------
(* merge_samples with a key function: _merge_samples_python.  The samples of
   the source are documents; the model follows this strategy on collections
   of images, whose samples have no frames. *)

\* the key function of the caller: the samples are keyed by their path
key_fcn(sample) == Get(sample, "filepath")

\* _make_merge_samples_generator, lines 4789-4797: filepath is put into the
\* field selection of a sample that is inserted
InsertFieldsAsGiven(arg) == arg
InsertFields(arg) ==
    IF IsNone(arg) THEN None
    ELSE LET a == The(arg)
             at == {n \in 1..Len(a.items) : a.items[n][1] = "filepath"}
         IN  IF a.kind = "dict"
             THEN IF at # {}
                  THEN DictArg([n \in 1..Len(a.items) |->
                                  IF n \in at THEN <<"filepath", "filepath">>
                                  ELSE a.items[n]])
                  ELSE DictArg(Append(a.items, <<"filepath", "filepath">>))
             ELSE IF "filepath" \in Range(a.items) THEN arg
             ELSE ListArg(<<"filepath">> \o a.items)

\* lines 4799-4803: filepath is taken out of the omitted fields
InsertOmitFields(omitOpt) ==
    IF IsNone(omitOpt) THEN None ELSE Some(The(omitOpt) \ {"filepath"})

\* the (field, new name) pairs of a selection of fields of document d, in
\* the order of the selection, without the omitted fields
FieldPairs(d, arg, omitOpt) ==
    LET names == FieldNames(d)
        all == IF IsNone(arg) THEN [n \in 1..Len(names) |-> <<names[n], names[n]>>]
               ELSE IF The(arg).kind = "list"
               THEN [n \in 1..Len(The(arg).items) |->
                       <<The(arg).items[n], The(arg).items[n]>>]
               ELSE The(arg).items
    IN  SelectSeq(all, LAMBDA q : IsNone(omitOpt) \/ q[1] \notin The(omitOpt))

\* {new name: value of field}: a later pair replaces an earlier one
RECURSIVE CopyFields(_, _, _)
CopyFields(acc, d, pairs) ==
    IF pairs = <<>> THEN acc
    ELSE CopyFields(
             MergeObjects2(acc, ObjectOf([g \in {Head(pairs)[2]} |->
                                            Get(d, Head(pairs)[1])])),
             d, Tail(pairs))

\* sample.copy(fields=arg, omit_fields=omitOpt): a new sample that is not in
\* a dataset, with the selected fields under their new names
CopySample(d, arg, omitOpt) ==
    CopyFields(ObjectOf([_media_type |-> Get(d, "_media_type")]), d,
               FieldPairs(d, arg, omitOpt))

\* existing_sample.merge(sample, fields, omit_fields, merge_lists,
\* overwrite): the per-field merge rules on the selected fields
SampleMerge(root, sample, arg, omitOpt, ml, ow) ==
    _merge_docs(SampleSchema, ml, FieldsDict(arg), omitOpt, {}, ow, root,
                CopyFields(<<>>, sample, FieldPairs(sample, arg, omitOpt)))

\* id_map = {key: id}: of two samples with one key the later one stays
IdOfKey(docs, key) ==
    (CHOOSE x \in docs :
        /\ key_fcn(x) = key
        /\ \A y \in docs : key_fcn(y) = key => y["_id"].v <= x["_id"].v)["_id"]

\* _make_merge_samples_generator, lines 4805-4829: the samples it yields for
\* the source samples seq; orig is the destination when the merge began and
\* cur the destination samples as merged so far.  A holds the arguments.
RECURSIVE _make_merge_samples_generator(_, _, _, _)
_make_merge_samples_generator(orig, cur, seq, A) ==
    IF seq = <<>> THEN <<>>
    ELSE LET sample == Head(seq)
             key == key_fcn(sample)
             known == \E x \in orig : key_fcn(x) = key
             existing_sample ==
                 CHOOSE x \in cur : x["_id"] = IdOfKey(orig, key)
             merged == SampleMerge(existing_sample, sample, A.fields, A.omit,
                                   A.ml, A.ow)
         IN  IF known
             THEN IF A.skip
                  THEN _make_merge_samples_generator(orig, cur, Tail(seq), A)
                  ELSE <<merged>> \o
                       _make_merge_samples_generator(
                           orig, (cur \ {existing_sample}) \cup {merged},
                           Tail(seq), A)
             ELSE IF A.ins
             THEN <<CopySample(sample, InsertFields(A.fields),
                               InsertOmitFields(A.omit))>> \o
                  _make_merge_samples_generator(orig, cur, Tail(seq), A)
             ELSE _make_merge_samples_generator(orig, cur, Tail(seq), A)

\* a document as the sample in memory that _expand_schema and
\* _validate_samples look at
AsSample(d) ==
    [filepath |-> Get(d, "filepath"), media_type |-> Get(d, "_media_type").v,
     fields |-> [f \in DOMAIN d \ {"_id", "filepath", "_media_type"} |-> d[f]],
     frames |-> <<>>]

\* foo.bulk_write(ops, ordered=False): ReplaceOne for a sample with an id,
\* InsertOne for a new one; every operation is tried
RECURSIVE bulk_write(_, _, _)
bulk_write(w, i, batch) ==
    IF batch = <<>> THEN w
    ELSE LET d == Head(batch)
             has_id == "_id" \in DOMAIN d
             others == IF has_id
                       THEN {x \in w.samples[i] : x["_id"] # d["_id"]}
                       ELSE w.samples[i]
             nd == IF has_id THEN d ELSE WithId(d, w.nextId)
             dup == /\ w.sindex[i]["filepath"] = "unique"
                    /\ \E x \in others : Value(x, "filepath") = Value(d, "filepath")
             w1 == IF dup THEN Fail(w, "BulkWriteError")
                   ELSE [w EXCEPT !.samples[i] = others \cup {nd},
                                  !.nextId = IF has_id THEN @ ELSE @ + 1]
         IN  TheOnly({bulk_write(w2, i, Tail(batch)) : w2 \in {w1}})

\* Dataset._upsert_samples_batch on st = [w, mt, out]
_upsert_samples_batch(st, i, batch, expand_schema, validate) ==
    LET unset == st.mt = "none" /\ batch # <<>>
        refused == unset /\ HoldsSamples(st.w.samples[i])
        mt == IF unset /\ ~refused THEN Get(batch[1], "_media_type").v
              ELSE st.mt
        as == [n \in 1..Len(batch) |-> AsSample(batch[n])]
        e == IF expand_schema
             THEN _expand_schema([schema |-> st.w.schema[i], out |-> "ok"],
                                 mt, as)
             ELSE [schema |-> st.w.schema[i], out |-> "ok"]
        v == IF validate THEN _validate_samples(e.schema.sample, as) ELSE "ok"
        w0 == [st.w EXCEPT !.schema[i] = e.schema]
    IN  IF refused THEN [st EXCEPT !.out = "ValueError"]
        ELSE IF e.out # "ok" THEN [w |-> w0, mt |-> mt, out |-> e.out]
        ELSE IF v # "ok" THEN [w |-> w0, mt |-> mt, out |-> v]
        ELSE TheOnly({[w |-> w1, mt |-> mt,
                       out |-> IF w1.err # "none" THEN w1.err ELSE "ok"] :
                        w1 \in {bulk_write(w0, i, batch)}})

\* the loop of _merge_samples_python over the batches
RECURSIVE UpsertBatches(_, _, _, _, _)
UpsertBatches(st, i, batches, expand_schema, validate) ==
    IF batches = <<>> \/ st.out # "ok" THEN st
    ELSE TheOnly({UpsertBatches(s1, i, Tail(batches), expand_schema, validate) :
                    s1 \in {_upsert_samples_batch(st, i, Head(batches),
                                                  expand_schema, validate)}})

\* i.merge_samples(j, key_fcn=key_fcn, skip_existing=skip, insert_new=ins,
\* fields=fieldsArg, omit_fields=omitOpt, merge_lists=ml, overwrite=ow,
\* expand_schema=expand) of a collection j: _merge_dataset_doc, then
\* _merge_samples_python with expand_schema=False
MergeSamplesPython(i, j, skip, ins, fieldsArg, omitOpt, ml, ow, expand) ==
    /\ i \in Constructed /\ j \in Constructed
    /\ media_type[j] # "video"
    /\ nextId + Cardinality(samples[j]) <= FirstNewId + MaxSamples
    /\ UNCHANGED <<ds, registry, everDeleted, srcName, pc, pre>>
    /\ IF \/ __getattribute__(ds[i], "merge_samples") # "ok"
          \/ __getattribute__(ds[j], "media_type") # "ok"
       THEN /\ Ends(World, "merge_samples", i, "", "Deleted")
            /\ UNCHANGED media_type
       ELSE \E m \in {_merge_dataset_doc(media_type[i], samples[i],
                                          media_type[j])} :
            \E sm \in {MergeSchemas(field_schema[i], field_schema[j],
                                     FieldsDict(fieldsArg), omitOpt,
                                     expand, m.mt = "video")} :
            \E w0 \in {[World EXCEPT !.schema[i] = sm.schema]} :
              IF m.out # "ok"
              THEN /\ Ends(World, "merge_samples", i, "", m.out)
                   /\ media_type' = [media_type EXCEPT ![i] = m.mt]
              ELSE IF sm.out # "ok"
              THEN /\ Ends(w0, "merge_samples", i, "", sm.out)
                   /\ media_type' = [media_type EXCEPT ![i] = m.mt]
              ELSE
                \E gen \in {_make_merge_samples_generator(
                                samples[i], samples[i], InOrder(samples[j]),
                                [skip |-> skip, ins |-> ins,
                                 fields |-> fieldsArg, omit |-> omitOpt,
                                 ml |-> ml, ow |-> ow])} :
                \E batches \in Batchings(gen, 0) :
                \E st \in {UpsertBatches([w |-> w0, mt |-> m.mt, out |-> "ok"],
                                          i, batches, FALSE, TRUE)} :
                  /\ Ends(st.w, "merge_samples", i, "key_fcn", st.out)
                  /\ media_type' = [media_type EXCEPT ![i] = st.mt]

SampleLists == SeqsUpTo(NewSamples, MaxLen) \ {<<>>}

\* the calls of a run that follows the instances and what they answer
NextLife ==
    /\ \/ \E n \in DatasetNames, create \in Bools, ow \in Bools :
            Construct(n, create, ow)
       \/ \E i \in DatasetIds, a \in AttributeNames : GetAttr(i, a)
       \/ \E i \in DatasetIds, s \in NewSamples : AddSamples(i, <<s>>, TRUE, TRUE)
       \/ \E i \in DatasetIds : Clear(i)
       \/ \E i \in DatasetIds : Delete(i)
    /\ UNCHANGED <<paramVars, docVars, toolVars>>

SpecLife == InitLife /\ [][NextLife]_vars

\* two datasets, constructed and empty
InitData ==
    /\ TwoDatasets
    /\ EmptyCollections
    /\ IdleMerge
    /\ IdleParams
    /\ IdleDocs

\* the calls of a run that follows the stored samples of two datasets
NextData ==
    /\ \/ \E i \in DatasetIds, m \in MediaTypes \cup {"audio"} :
            SetMediaType(i, m)
       \/ \E i \in DatasetIds, list \in SampleLists, e \in Bools, v \in Bools :
            AddSamples(i, list, e, v)
       \/ \E i \in DatasetIds : \E ids \in SUBSET {s["_id"] : s \in samples[i]} :
            DeleteSamples(i, ids)
       \/ \E i \in DatasetIds : Clear(i)
       \/ \E i \in DatasetIds, j \in DatasetIds :
            \/ MergeSamplesCall(i, j, "filepath", FALSE, TRUE, None, None,
                                TRUE, TRUE, TRUE)
            \/ MergeSamplesCall(i, j, "id", TRUE, TRUE, None, None,
                                TRUE, TRUE, TRUE)
    /\ UNCHANGED <<paramVars, docVars, toolVars>>

SpecData == InitData /\ [][NextData]_vars

----------------------------------------------------------------------------
(* Field deletion and saving. *)

\* a document / a schema without the fields F
Without(d, F) == [g \in DOMAIN d \ F |-> d[g]]

\* delete_sample_field(f): the field leaves the schema and the samples.
\* A field that is not declared, or a default field, cannot be deleted.
DeleteSampleField(i, f) ==
    /\ i \in Constructed
    /\ UNCHANGED <<ds, registry, everDeleted, media_type, srcName, pc, pre>>
    /\ IF __getattribute__(ds[i], "delete_sample_field") # "ok"
       THEN Ends(World, "delete_sample_field", i, "", "Deleted")
       ELSE IF \/ f \notin DOMAIN field_schema[i].sample
               \/ f \in DOMAIN DefaultSampleSchema
       THEN Ends(World, "delete_sample_field", i, "", "ValueError")
       ELSE Ends([World EXCEPT
                    !.schema[i].sample = Without(@, {f}),
                    !.samples[i] = {Without(d, {f}) : d \in @}],
                 "delete_sample_field", i, "", "ok")

\* every field that is not a default field
MissingFieldsAll(sch, excluded) == DOMAIN sch \ DOMAIN DefaultSampleSchema

\* the fields of the dataset schema that a view leaves out
\* (view._get_missing_fields)
MissingFields(sch, excluded) == DOMAIN sch \cap excluded

\* _save_view(view, fields) on the database w.  The view is the samples ids
\* of dataset i without the fields excluded.  With fields given the view is
\* merged into the collection it was read from, otherwise the collection is
\* replaced by the view ($out) and the fields it leaves out are deleted from
\* the schema.
_save_view(w, i, ids, excluded, merge, is_video) ==
    LET viewed == {Without(d, excluded) :
                     d \in {x \in w.samples[i] : x["_id"] \in ids}}
        fviewed == {f \in w.frames[i] : Get(f, "_sample_id") \in ids}
    IN  IF merge THEN w
        ELSE [w EXCEPT
                !.samples[i] = viewed,
                !.frames[i] = IF is_video THEN fviewed ELSE @,
                !.schema[i].sample =
                    Without(@, MissingFields(@, excluded))]

\* dataset.save() is SaveCall(i, {}, {}, FALSE, FALSE); view.save(fields) is
\* dataset._save(view, fields)
SaveCall(i, ids, excluded, with_view, merge) ==
    /\ i \in Constructed
    /\ ids \subseteq {d["_id"] : d \in samples[i]}
    /\ ~with_view => ids = {} /\ excluded = {} /\ ~merge
    /\ UNCHANGED <<ds, registry, everDeleted, media_type, srcName, pc, pre>>
    /\ IF __getattribute__(ds[i], "_save") # "ok"
       THEN Ends(World, "save", i, "", "Deleted")
       ELSE IF with_view
       THEN Ends(_save_view(World, i, ids, excluded, merge,
                            media_type[i] = "video"),
                 "save_view", i, "", "ok")
       ELSE Ends(World, "save", i, "", "ok")

----------------------------------------------------------------------------
(* SpecSchema: the calls that add, merge, delete and save samples of a
   dataset whose samples and frames carry one more field, with a value of
   one of two types, None, or not at all; a second dataset is the source
   of the merges. *)

FieldTypes == {"IntField", "StringField"}
FieldValues == {Null} \cup {Typed(ty, 1) : ty \in FieldTypes}

\* no other field; the field f with value x
NoFields == <<>>
OneField(f, x) == [g \in {f} |-> x]

SchemaImages ==
    {[filepath |-> "k1", media_type |-> "image", fields |-> fs,
      frames |-> <<>>] :
        fs \in {NoFields} \cup {OneField("foo", x) : x \in FieldValues}}

SchemaVideos ==
    {[filepath |-> "k2", media_type |-> "video", fields |-> NoFields,
      frames |-> fr] :
        fr \in {<<>>} \cup
               {<<MergeObjects2([frame_number |-> Val(1)], fs)>> :
                  fs \in {NoFields} \cup
                         {OneField("fval", x) : x \in FieldValues}}}

SchemaSamples == SchemaImages \cup SchemaVideos

\* add_sample with any of the samples, add_samples with two images of which
\* one has no other field
SchemaSampleLists ==
    {<<s>> : s \in SchemaSamples}
    \cup {<<s, t>> : s \in {x \in SchemaImages : x.fields = NoFields},
                     t \in SchemaImages}
    \cup {<<t, s>> : s \in {x \in SchemaImages : x.fields = NoFields},
                     t \in SchemaImages}

\* the views that are saved: all the samples or all but one, without some
\* fields
ViewExclusions == SUBSET {"foo"}
ViewSamples(S) ==
    {{s["_id"] : s \in S} \ drop : drop \in {{}} \cup {{s["_id"]} : s \in S}}

\* the field selections of the merges
SchemaFieldChoices == {None, DictArg(<<<<"foo", "bar">>>>)}

\* the database of two new datasets
NewWorld ==
    [samples |-> [n \in DatasetIds |-> {}],
     frames |-> [n \in DatasetIds |-> {}],
     sindex |-> [n \in DatasetIds |->
                  [f \in IndexedFields |-> IF n <= 2 THEN "plain" ELSE "none"]],
     findex |-> [n \in DatasetIds |-> IF n <= 2 THEN {"sample_frame"} ELSE {}],
     nextId |-> FirstNewId, ix |-> NoIx, err |-> "none",
     schema |-> [n \in DatasetIds |-> DefaultSchema]]

\* dataset 1 is new; dataset 2 is new, or one sample was added to it with
\* add_sample(sample)
InitSchema ==
    /\ TwoDatasets
    /\ IdleParams
    /\ IdleDocs
    /\ IdleTools
    /\ srcName = 2 /\ pc = "idle" /\ pre = [samples |-> {}, frames |-> {}]
    /\ \E batches \in {<<>>} \cup {<<<<s>>>> : s \in SchemaSamples} :
       \E st \in {AddBatches([w |-> NewWorld, mt |-> "none", out |-> "ok"],
                             2, batches, TRUE, TRUE)} :
         /\ samples = st.w.samples
         /\ frames = st.w.frames
         /\ sindex = st.w.sindex
         /\ findex = st.w.findex
         /\ nextId = st.w.nextId
         /\ ix = st.w.ix
         /\ err = st.w.err
         /\ field_schema = st.w.schema
         /\ media_type = [n \in DatasetIds |-> IF n = 2 THEN st.mt ELSE "none"]

\* the calls on dataset 1, with dataset 2 as the source of the merges
NextSchema ==
    /\ \/ \E list \in SchemaSampleLists, e \in Bools, v \in Bools :
            AddSamples(1, list, e, v)
       \/ \E ids \in SUBSET {s["_id"] : s \in samples[1]} :
            DeleteSamples(1, ids)
       \/ Clear(1)
       \/ \E fa \in SchemaFieldChoices, e \in Bools :
            MergeSamplesCall(1, 2, "filepath", FALSE, TRUE, fa, None,
                             TRUE, TRUE, e)
       \/ \E fa \in SchemaFieldChoices, e \in Bools :
            MergeSamplesPython(1, 2, FALSE, TRUE, fa, None, TRUE, TRUE, e)
       \/ \E f \in {"foo", "bar", "filepath"} :
            DeleteSampleField(1, f)
       \/ SaveCall(1, {}, {}, FALSE, FALSE)
       \/ \E x \in ViewExclusions, ids \in ViewSamples(samples[1]) :
            SaveCall(1, ids, x, TRUE, FALSE)
       \/ SaveCall(1, {s["_id"] : s \in samples[1]}, {"foo"}, TRUE, TRUE)
    /\ UNCHANGED <<paramVars, docVars, toolVars>>

SpecSchema == InitSchema /\ [][NextSchema]_vars

----------------------------------------------------------------------------
(* Dataset._pipeline: the stages of an aggregation.  A stage is [op, n]; a
   list is an object of the heap h, so that the list a caller passes and the
   list that is returned can be told apart. *)

Stage(op) == [op |-> op, n |-> 0]

\* a $skip stage that skips nothing
SkipNone(index) == [op |-> "$skip", n |-> 0]

\* {"$skip": index}
SkipStage(index) == [op |-> "$skip", n |-> index]

\* {$lookup: {from: frames, ..., as: "frames"}}
LookupFrames == Stage("$lookup frames")
\* {$project: {frames: False}}
DetachFrames == Stage("$project frames False")
\* {$project: {frames: True}}, {$unwind: "$frames"},
\* {$replaceRoot: {newRoot: "$frames"}}
FramesOnlyStages ==
    <<Stage("$project frames True"), Stage("$unwind $frames"),
      Stage("$replaceRoot $frames")>>

\* the list objects of a call
ListAddresses == {"caller", "fresh"}

\* detach_frames as it was requested
DetachAsRequested(video, attach_frames, detach_frames) ==
    video /\ detach_frames

\* detach_frames after "if not attach_frames: detach_frames = False"
Detach(video, attach_frames, detach_frames) ==
    video /\ attach_frames /\ detach_frames

\* attach_frames after "if frames_only: attach_frames = True"
Attach(video, attach_frames, frames_only) ==
    video /\ (attach_frames \/ frames_only)

\* the list of the caller, when there is one, as the list that is built
TargetCaller(arg) == IF IsNone(arg) THEN "fresh" ELSE The(arg)

\* _pipeline = [...]: the list that is built is a new list
Target(arg) == "fresh"

\* Dataset._pipeline(pipeline=arg, attach_frames, detach_frames,
\* frames_only) of a dataset of media type mt: the heap after the call
\* and the address of the list that is returned
_pipeline(h, mt, arg, attach_frames, detach_frames, frames_only) ==
    LET video == mt = "video"
        detach == Detach(video, attach_frames, detach_frames)
        only == video /\ frames_only
        attach == Attach(video, attach_frames, frames_only)
        t == Target(arg)
        h1 == [h EXCEPT ![t] = IF attach THEN <<LookupFrames>> ELSE <<>>]
        h2 == IF IsNone(arg) THEN h1
              ELSE [h1 EXCEPT ![t] = @ \o h1[The(arg)]]
        h3 == IF detach THEN [h2 EXCEPT ![t] = @ \o <<DetachFrames>>]
              ELSE IF only THEN [h2 EXCEPT ![t] = @ \o FramesOnlyStages]
              ELSE h2
    IN  [heap |-> h3, ret |-> t]

\* a heap with no list
NoLists == [a \in ListAddresses |-> <<>>]

----------------------------------------------------------------------------
(* SpecPipe: one call of _pipeline, for every media type, every combination
   of the three flags, and no list or a list of user stages. *)

UserStages == {Stage("$match"), Stage("$limit")}
UserPipelines == SeqsUpTo(UserStages, MaxLen)

\* the caller has built its list (given) and chosen the flags
InitPipe ==
    /\ TwoDatasets
    /\ EmptyCollections
    /\ IdleCalls
    /\ IdleParams
    /\ IdleDocs
    /\ it = NoIter /\ cr = NoCreate /\ br = NoRuns
    /\ \E given \in {None} \cup {Some(u) : u \in UserPipelines},
          a \in Bools, d \in Bools, f \in Bools,
          mt \in {"none"} \cup MediaTypes :
         cp = [pc |-> "called", mt |-> mt, given |-> given,
               arg |-> IF IsNone(given) THEN None ELSE Some("caller"),
               attach_frames |-> a, detach_frames |-> d, frames_only |-> f,
               heap |-> IF IsNone(given) THEN NoLists
                        ELSE [NoLists EXCEPT !["caller"] = The(given)],
               ret |-> "none"]

\* the call returns
Compile ==
    /\ cp.pc = "called"
    /\ \E r \in {_pipeline(cp.heap, cp.mt, cp.arg, cp.attach_frames,
                            cp.detach_frames, cp.frames_only)} :
         cp' = [cp EXCEPT !.pc = "done", !.heap = r.heap, !.ret = r.ret]

NextPipe ==
    /\ Compile
    /\ UNCHANGED <<paramVars, docVars, lifeVars, mergeVars, it, cr, br>>

SpecPipe == InitPipe /\ [][NextPipe]_vars

----------------------------------------------------------------------------
(* iter_samples and _iter_samples.  The generator is at some depth of the
   recursion of _iter_samples: index holds the counter of every level, the
   last one is the level that reads the cursor; all levels share the list
   pipeline. *)

Drop(seq, n) == SubSeq(seq, n + 1, Len(seq))

\* foo.aggregate(collection, pipeline) on the documents in their order: a
\* $skip stage drops documents; the other stages of the pipelines that are
\* iterated keep the documents and their order
RECURSIVE aggregate(_, _)
aggregate(docs, pipeline) ==
    IF pipeline = <<>> THEN docs
    ELSE aggregate(IF Head(pipeline).op = "$skip"
                   THEN Drop(docs, Head(pipeline).n)
                   ELSE docs,
                   Tail(pipeline))

\* the pipeline is issued again as it is
ResumeFromStart(pipeline, index) == pipeline

\* pipeline.append({"$skip": index})
Resume(pipeline, index) == Append(pipeline, SkipStage(index))

\* the samples that one iteration can yield in the model
YieldCap == MaxDocs + 1

\* dataset.iter_samples() is called and the first cursor is opened
IterSamples(i) ==
    /\ it.pc = "idle"
    /\ i \in Constructed
    /\ __getattribute__(ds[i], "iter_samples") = "ok"
    /\ \E r \in {_pipeline(NoLists, media_type[i], None, FALSE, TRUE, FALSE)} :
       \E pipeline \in {r.heap[r.ret]} :
         it' = [pc |-> "iterating", ds |-> i, pipeline |-> pipeline,
                index |-> <<0>>,
                cursor |-> aggregate(InOrder(samples[i]), pipeline),
                yielded |-> <<>>]

\* the cursor gives a document: index += 1; yield sample
Yield ==
    /\ it.pc = "iterating"
    /\ it.cursor # <<>>
    /\ Len(it.yielded) < YieldCap
    /\ it' = [it EXCEPT !.yielded = Append(@, Head(it.cursor)["_id"].v),
                        !.cursor = Tail(@),
                        !.index[Len(it.index)] = @ + 1]

\* the cursor raises CursorNotFound: the level that reads it appends the
\* $skip stage and calls _iter_samples(pipeline)
CursorNotFound ==
    /\ it.pc = "iterating"
    /\ \E pipeline \in {Resume(it.pipeline, it.index[Len(it.index)])} :
         it' = [it EXCEPT !.pipeline = pipeline,
                          !.index = Append(@, 0),
                          !.cursor = aggregate(InOrder(samples[it.ds]),
                                               pipeline)]

\* the cursor is exhausted: every level of the recursion returns
StopIteration ==
    /\ it.pc = "iterating"
    /\ it.cursor = <<>>
    /\ it' = [it EXCEPT !.pc = "done"]

----------------------------------------------------------------------------
(* SpecIter: one iteration of a dataset of up to MaxDocs samples whose
   cursors expire up to MaxExpirations times, at any position.
   SpecIterFair: the same iteration where the consumer keeps reading, and a
   cursor that was issued again gives a sample before it expires. *)

IterDoc(id, mt) ==
    [_id |-> Val(id), filepath |-> Val("k1"), _media_type |-> Val(mt)]

InitIter ==
    /\ TwoDatasets
    /\ IdleCalls
    /\ IdleParams
    /\ IdleDocs
    /\ it = NoIter /\ cp = NoCompile /\ cr = NoCreate /\ br = NoRuns
    /\ \E n \in 0..MaxDocs, mt \in MediaTypes :
         /\ samples = [k \in DatasetIds |->
                         IF k = 1 THEN {IterDoc(FirstNewId + j, mt) : j \in 1..n}
                         ELSE {}]
         /\ media_type = [k \in DatasetIds |-> IF k = 1 THEN mt ELSE "none"]
    /\ frames = [k \in DatasetIds |-> {}]
    /\ sindex = [k \in DatasetIds |->
                  [f \in IndexedFields |-> IF k <= 2 THEN "plain" ELSE "none"]]
    /\ findex = [k \in DatasetIds |-> IF k <= 2 THEN {"sample_frame"} ELSE {}]
    /\ field_schema = [k \in DatasetIds |-> DefaultSchema]

NextIter ==
    /\ \/ IterSamples(1)
       \/ Yield
       \/ CursorNotFound /\ Len(it.index) <= MaxExpirations
       \/ StopIteration
    /\ UNCHANGED <<paramVars, docVars, lifeVars, mergeVars, cp, cr, br>>

SpecIter == InitIter /\ [][NextIter]_vars

\* the cursor that reads is the first one, or has given a sample
GaveSample == Len(it.index) = 1 \/ it.index[Len(it.index)] > 0

Reads ==
    /\ \/ IterSamples(1)
       \/ Yield
       \/ StopIteration
    /\ UNCHANGED <<paramVars, docVars, lifeVars, mergeVars, cp, cr, br>>

NextIterFair ==
    \/ Reads
    \/ /\ CursorNotFound /\ GaveSample
       /\ UNCHANGED <<paramVars, docVars, lifeVars, mergeVars, cp, cr, br>>

SpecIterFair == InitIter /\ [][NextIterFair]_vars /\ WF_vars(Reads)

----------------------------------------------------------------------------
(* SpecCreate: Dataset(name) with overwrite=False run by two processes on
   one database.  A call is the steps of _create_dataset: the test
   dataset_exists(name), dataset_doc.save(), _create_indexes(...). *)

\* dataset_exists(name): a dataset document with this name is found
DocExists(docs, name) == \E d \in docs : d.name = name

\* a save that no index refuses
UniqueNameNotEnforced(docs, name) == FALSE

\* the unique index on ODMDataset.name refuses a second document of a name
UniqueNameViolated(docs, name) == \E d \in docs : d.name = name

\* _make_sample_collection_name: a name no other call has
CollectionOf(p, name) == [by |-> p, name |-> name]

InitCreate ==
    /\ InitLife
    /\ cr = NoCreate

\* Dataset(name) is called
CallCreate(p, n) ==
    /\ cr.proc[p].pc = "idle"
    /\ cr' = [cr EXCEPT !.proc[p] = [pc |-> "check", name |-> n, out |-> ""]]

\* if dataset_exists(name): raise ValueError
CheckExists(p) ==
    /\ cr.proc[p].pc = "check"
    /\ cr' = [cr EXCEPT !.proc[p] =
                IF DocExists(cr.docs, @.name)
                THEN [@ EXCEPT !.pc = "done", !.out = "ValueError"]
                ELSE [@ EXCEPT !.pc = "save"]]

\* dataset_doc.save()
SaveDoc(p) ==
    /\ cr.proc[p].pc = "save"
    /\ LET n == cr.proc[p].name
       IN  IF UniqueNameViolated(cr.docs, n)
           THEN cr' = [cr EXCEPT !.proc[p].pc = "done",
                                 !.proc[p].out = "NotUniqueError"]
           ELSE cr' = [cr EXCEPT !.proc[p].pc = "indexes",
                                 !.docs = @ \cup {[name |-> n,
                                                   coll |-> CollectionOf(p, n)]}]

\* _create_indexes(sample_collection_name, frame_collection_name)
CreateIndexes(p) ==
    /\ cr.proc[p].pc = "indexes"
    /\ cr' = [cr EXCEPT !.proc[p].pc = "done", !.proc[p].out = "ok",
                        !.colls = @ \cup {CollectionOf(p, cr.proc[p].name)}]

\* the call has returned or raised
ReturnCreate(p) ==
    /\ cr.proc[p].pc = "done"
    /\ cr' = [cr EXCEPT !.proc[p] = NoCall]

NextCreate ==
    /\ \/ \E p \in Procs, n \in DatasetNames : CallCreate(p, n)
       \/ \E p \in Procs : CheckExists(p)
       \/ \E p \in Procs : SaveDoc(p)
       \/ \E p \in Procs : CreateIndexes(p)
       \/ \E p \in Procs : ReturnCreate(p)
    /\ UNCHANGED <<paramVars, docVars, lifeVars, mergeVars, it, cp, br>>

SpecCreate == InitCreate /\ [][NextCreate]_vars

----------------------------------------------------------------------------
(* merge_samples with an iterable of samples and no key function: the
   samples are added to a temporary dataset, which is merged and deleted. *)

\* the name Dataset() gives a dataset made without a name
TmpName == "tmp"

\* merge_samples(collection) on the database w, from _merge_dataset_doc to
\* the end of _merge_samples_pipeline
MergeCollection(w, dst_mt, i, j, src_mt, kf, skip, ins, fa, omitOpt, ml, ow, expand) ==
    LET m == _merge_dataset_doc(dst_mt, w.samples[i], src_mt)
        sm == MergeSchemas(w.schema[i], w.schema[j], FieldsDict(fa),
                           omitOpt, expand, m.mt = "video")
        w0 == [w EXCEPT !.schema[i] = sm.schema]
        Q == Params(kf, skip, ins, FieldsDict(fa), omitOpt, ml, ow,
                    m.mt = "video")
    IN  IF m.out # "ok" THEN [w |-> w, mt |-> m.mt, out |-> m.out]
        ELSE IF sm.out # "ok" THEN [w |-> w0, mt |-> m.mt, out |-> sm.out]
        ELSE TheOnly({[w |-> w1, mt |-> m.mt,
                       out |-> IF w1.err # "none" THEN w1.err ELSE "ok"] :
                        w1 \in {_merge_samples_pipeline(w0, i, j, Q,
                                                        m.mt = "video")}})

\* merge_samples(list, key_field=kf, insert_new=ins, expand_schema=expand)
MergeSamplesIterable(i, list, kf, ins, expand) ==
    LET k == Len(ds) + 1
        made == Append(ds, [name |-> TmpName, _deleted |-> FALSE])
    IN  /\ i \in Constructed
        /\ nextId + 2 * Len(list) <= FirstNewId + MaxSamples
        /\ UNCHANGED <<registry, srcName, pc, pre>>
        /\ IF __getattribute__(ds[i], "merge_samples") # "ok"
           THEN /\ Ends(World, "merge_samples", i, "iterable", "Deleted")
                /\ UNCHANGED <<ds, media_type, everDeleted>>
           ELSE /\ k <= MaxInstances
                /\ \E batches \in Batchings(list, 0) :
                   \E st \in {AddBatches([w |-> _create_dataset(World, k),
                                          mt |-> "none", out |-> "ok"],
                                         k, batches, TRUE, TRUE)} :
                   \E mg \in {IF st.out # "ok" THEN st
                              ELSE MergeCollection(st.w, media_type[i], i, k,
                                                   st.mt, kf, FALSE, ins,
                                                   None, None, TRUE, TRUE,
                                                   expand)} :
                     /\ media_type' = [media_type EXCEPT
                                         ![k] = st.mt,
                                         ![i] = IF st.out = "ok" THEN mg.mt
                                                ELSE @]
                     /\ IF mg.out # "ok"
                        THEN /\ ds' = made
                             /\ UNCHANGED everDeleted
                             /\ Ends(mg.w, "merge_samples", i, "iterable",
                                     mg.out)
                        ELSE /\ ds' = [made EXCEPT ![k] = MarkDeleted(@)]
                             /\ everDeleted' = everDeleted \cup {k}
                             /\ Ends(clear(mg.w, k), "merge_samples", i,
                                     "iterable", "ok")

----------------------------------------------------------------------------
(* SpecTemp: samples are added to one dataset and lists of samples are
   merged into it. *)

TempSampleLists ==
    SchemaSampleLists
    \cup {<<s, t>> : s \in {x \in SchemaImages : x.fields = NoFields},
                     t \in {x \in SchemaVideos : x.frames = <<>>}}

InitTemp ==
    /\ ds = <<[name |-> "a", _deleted |-> FALSE]>>
    /\ registry = [n \in DatasetNames |-> IF n = "a" THEN 1 ELSE 0]
    /\ res = [op |-> "none", arg |-> "", pre |-> FALSE, out |-> "ok"]
    /\ everDeleted = {}
    /\ samples = [n \in DatasetIds |-> {}]
    /\ frames = [n \in DatasetIds |-> {}]
    /\ sindex = [n \in DatasetIds |->
                  [f \in IndexedFields |-> IF n = 1 THEN "plain" ELSE "none"]]
    /\ findex = [n \in DatasetIds |-> IF n = 1 THEN {"sample_frame"} ELSE {}]
    /\ media_type = [n \in DatasetIds |-> "none"]
    /\ field_schema = [n \in DatasetIds |-> DefaultSchema]
    /\ IdleCalls
    /\ IdleParams
    /\ IdleDocs
    /\ IdleTools

NextTemp ==
    /\ \/ \E list \in SchemaSampleLists : AddSamples(1, list, TRUE, TRUE)
       \/ \E list \in TempSampleLists, ins \in Bools, e \in Bools :
            MergeSamplesIterable(1, list, "filepath", ins, e)
       \/ Delete(1)
    /\ UNCHANGED <<paramVars, docVars, toolVars>>

SpecTemp == InitTemp /\ [][NextTemp]_vars

----------------------------------------------------------------------------
(* SpecIndex: create_index and drop_index on the sample collections of two
   datasets to which samples are added and which are merged on filepath. *)

\* the fields the calls name: filepath is declared, foo is not
IndexCallFields == {"filepath", "foo"}

\* create_index, lines 3786-3789: the index that exists is good enough
AnyIndexSatisfies(_unique, unique) == TRUE
Satisfactory(_unique, unique) == _unique \/ (unique = _unique)

\* create_index(field_name, unique) on the database w: [w, out]
create_index(w, i, field_name, unique) ==
    LET declared == field_name \in DOMAIN w.schema[i].sample
        cur == IF declared THEN w.sindex[i][field_name] ELSE "none"
        kept == cur # "none" /\ Satisfactory(cur = "unique", unique)
        w1 == [w EXCEPT !.sindex[i][field_name] = "none"]
    IN  IF ~declared THEN [w |-> w, out |-> "ValueError"]
        ELSE IF kept THEN [w |-> w, out |-> "ok"]
        ELSE IF unique /\ HasDuplicates(w.samples[i], field_name)
        THEN [w |-> w1, out |-> "DuplicateKeyError"]
        ELSE [w |-> [w1 EXCEPT !.sindex[i][field_name] =
                                  IF unique THEN "unique" ELSE "plain"],
              out |-> "ok"]

\* drop_index(field_name) on the database w: [w, out]
drop_index(w, i, field_name) ==
    IF field_name \notin DOMAIN w.schema[i].sample THEN [w |-> w, out |-> "ValueError"]
    ELSE IF w.sindex[i][field_name] = "none" THEN [w |-> w, out |-> "ValueError"]
    ELSE [w |-> [w EXCEPT !.sindex[i][field_name] = "none"], out |-> "ok"]

\* dataset.create_index(f, unique=u)
CreateIndex(i, f, u) ==
    /\ i \in Constructed
    /\ UNCHANGED <<ds, registry, everDeleted, media_type, srcName, pc, pre>>
    /\ IF __getattribute__(ds[i], "create_index") # "ok"
       THEN Ends(World, "create_index", i, f, "Deleted")
       ELSE \E r \in {create_index(World, i, f, u)} :
              Ends(r.w, "create_index", i, f, r.out)

\* dataset.drop_index(f)
DropIndex(i, f) ==
    /\ i \in Constructed
    /\ UNCHANGED <<ds, registry, everDeleted, media_type, srcName, pc, pre>>
    /\ IF __getattribute__(ds[i], "drop_index") # "ok"
       THEN Ends(World, "drop_index", i, f, "Deleted")
       ELSE \E r \in {drop_index(World, i, f)} :
              Ends(r.w, "drop_index", i, f, r.out)

NextIndex ==
    /\ \/ \E i \in DatasetIds, f \in IndexCallFields, u \in Bools :
            CreateIndex(i, f, u)
       \/ \E i \in DatasetIds, f \in IndexCallFields : DropIndex(i, f)
       \/ \E i \in DatasetIds, j \in DatasetIds :
            MergeSamplesCall(i, j, "filepath", FALSE, TRUE, None, None,
                             TRUE, TRUE, TRUE)
       \/ \E i \in DatasetIds, s \in NewSamples :
            AddSamples(i, <<s>>, TRUE, TRUE)
       \/ \E i \in DatasetIds : Delete(i)
    /\ UNCHANGED <<paramVars, docVars, toolVars>>

SpecIndex == InitData /\ [][NextIndex]_vars

----------------------------------------------------------------------------
(* Run results.  br.runs[i][key] is the run document of dataset i under a
   key of its evaluations or brain_methods: results is None or the id of a
   blob; br.blobs is the blob store; br.last is what the last
   load_run_results gave. *)

\* the blob that is written for dataset i under a key
BlobId(i, key) == [of |-> i, key |-> key]

\* run_doc.results.read(): the data of the blob with this id, if there is one
BlobData(blobs, id) == {b.data : b \in {x \in blobs : x.id = id}}

\* load_run_results(dataset, key): None when the run has no results
load_run_results(b, i, key) ==
    IF IsNone(b.runs[i][key].results) THEN None
    ELSE BlobData(b.blobs, The(b.runs[i][key].results))

\* save_run_results(dataset, key, results): the results the run document
\* refers to are deleted, and a blob of the dataset is written
save_run_results(b, i, key, results) ==
    LET old == b.runs[i][key].results
        kept == {x \in b.blobs : IsNone(old) \/ x.id # The(old)}
    IN  IF IsNone(results)
        THEN [b EXCEPT !.blobs = kept, !.runs[i][key].results = None]
        ELSE [b EXCEPT !.blobs = kept \cup {[id |-> BlobId(i, key),
                                             data |-> The(results)]},
                       !.runs[i][key].results = Some(BlobId(i, key))]

\* a run of dataset i is recorded under the key, with results or without
RunMethod(i, key, with_results) ==
    /\ i \in Constructed
    /\ ~ds[i]._deleted
    /\ ~br.runs[i][key].present
    /\ \E b \in {[br EXCEPT !.runs[i][key].present = TRUE]} :
         br' = [IF with_results
                THEN save_run_results(b, i, key, Some(BlobId(i, key)))
                ELSE b EXCEPT !.last = ""]

\* the run document keeps the reference it was copied with
KeepReference(b, dst, key) == b

\* _clone_runs, one round of the loops: the results are loaded through the
\* copied reference, the reference is reset, and the results are saved
_clone_run(b, dst, key) ==
    LET results == load_run_results(b, dst, key)
    IN  save_run_results([b EXCEPT !.runs[dst][key].results = None],
                         dst, key, results)

\* _clone_runs(dst_dataset, src_doc)
_clone_runs(b, dst, src) ==
    LET copied == [b EXCEPT !.runs[dst] = b.runs[src]]
        b1 == IF copied.runs[dst]["eval"].present
              THEN _clone_run(copied, dst, "eval") ELSE copied
        b2 == IF b1.runs[dst]["brain"].present
              THEN _clone_run(b1, dst, "brain") ELSE b1
    IN  b2

\* _delete_dataset_doc: the results of the runs of the document are deleted
_delete_dataset_doc(b, i) ==
    [b EXCEPT !.blobs = {x \in @ : \A key \in RunKeys :
                            Some(x.id) # b.runs[i][key].results},
              !.runs[i] = [key \in RunKeys |-> NoRun]]

\* dataset.clone(name): _clone_dataset_or_view(dataset, name)
Clone(i, n) ==
    LET k == Len(ds) + 1
        w1 == _create_indexes([World EXCEPT !.schema[k] = World.schema[i]], k)
        w2 == [w1 EXCEPT !.samples[k] = w1.samples[i],
                         !.frames[k] = IF media_type[i] = "video"
                                       THEN w1.frames[i] ELSE @]
    IN  /\ i \in Constructed
        /\ UNCHANGED <<everDeleted, srcName, pc, pre>>
        /\ IF __getattribute__(ds[i], "clone") # "ok"
           THEN /\ Ends(World, "clone", i, "", "Deleted")
                /\ UNCHANGED <<ds, registry, media_type, br>>
           ELSE IF dataset_exists(n)
           THEN /\ Ends(World, "clone", i, "", "AlreadyExists")
                /\ UNCHANGED <<ds, registry, media_type, br>>
           ELSE /\ k <= MaxInstances
                /\ ds' = Append(ds, [name |-> n, _deleted |-> FALSE])
                /\ registry' = [registry EXCEPT ![n] = k]
                /\ media_type' = [media_type EXCEPT ![k] = media_type[i]]
                /\ Ends(w2, "clone", i, "", "ok")
                /\ \E b \in {[br EXCEPT !.last = ""]} :
                     br' = IF \E key \in RunKeys : b.runs[i][key].present
                           THEN _clone_runs(b, k, i) ELSE b

\* dataset.delete() of a dataset with runs
DeleteWithRuns(i) ==
    /\ Delete(i)
    /\ \E b \in {[br EXCEPT !.last = ""]} :
         br' = IF ds[i]._deleted THEN b ELSE _delete_dataset_doc(b, i)

\* dataset.load_evaluation_results(key) / load_brain_results(key)
LoadRunResults(i, key) ==
    /\ i \in Constructed
    /\ Unchanged("load_run_results", i, key,
                 __getattribute__(ds[i], "load_run_results"))
    /\ br' = [br EXCEPT !.last =
                IF ds[i]._deleted THEN "Deleted"
                ELSE IF ~br.runs[i][key].present THEN "KeyError"
                ELSE IF IsNone(br.runs[i][key].results) THEN "None"
                ELSE IF load_run_results(br, i, key) = {} THEN "NoFile"
                ELSE "results"]

----------------------------------------------------------------------------
(* SpecClone: one dataset with up to two runs, which is cloned; source and
   clones are deleted and their run results are loaded. *)

InitClone ==
    /\ ds = <<[name |-> "a", _deleted |-> FALSE]>>
    /\ registry = [n \in DatasetNames |-> IF n = "a" THEN 1 ELSE 0]
    /\ res = [op |-> "none", arg |-> "", pre |-> FALSE, out |-> "ok"]
    /\ everDeleted = {}
    /\ EmptyCollections
    /\ IdleCalls
    /\ IdleParams
    /\ IdleDocs
    /\ it = NoIter /\ cp = NoCompile /\ cr = NoCreate
    /\ br = [NoRuns EXCEPT !.runs = [k \in DatasetIds |->
                                        [key \in RunKeys |-> NoRun]]]

NextClone ==
    /\ \/ \E i \in DatasetIds, key \in RunKeys, r \in Bools :
            RunMethod(i, key, r) /\ UNCHANGED <<lifeVars, mergeVars>>
       \/ \E i \in DatasetIds, n \in DatasetNames : Clone(i, n)
       \/ \E i \in DatasetIds : DeleteWithRuns(i)
       \/ \E i \in DatasetIds, key \in RunKeys : LoadRunResults(i, key)
    /\ UNCHANGED <<paramVars, docVars, it, cp, cr>>

SpecClone == InitClone /\ [][NextClone]_vars

----------------------------------------------------------------------------
(* SpecInsert: one call of merge_samples of the image dataset 2 into the
   image dataset 1 with a selection of fields, along the pipeline (key field)
   or in memory (key function). *)

ImageSample(id, i, v) ==
    [_id |-> Val(id), filepath |-> Val(Filepath(i)),
     _media_type |-> Val("image"), foo |-> Val(v), tags |-> List(<<v>>)]

\* the schema of datasets whose samples carry the text field foo
TextSchema ==
    [sample |-> Declared(DefaultSampleSchema, "foo", "StringField"),
     frame |-> DefaultFrameSchema]

\* allow-lists and renamings that name, leave out or rename filepath
InsertFieldChoices ==
    {None, ListArg(<<"foo">>), ListArg(<<"foo", "filepath">>),
     DictArg(<<<<"filepath", "bar">>>>), DictArg(<<<<"foo", "filepath">>>>),
     DictArg(<<<<"foo", "bar">>>>)}
InsertOmitChoices == {None, Some({"filepath"}), Some({"foo"})}

InitInsert ==
    /\ \E dk \in SUBSET Keys, sk \in SUBSET Keys :
         /\ samples = [n \in DatasetIds |->
                         IF n = 1 THEN {ImageSample(i, i, "f1") : i \in dk}
                         ELSE IF n = 2
                         THEN {ImageSample(10 + i, i, "f2") : i \in sk}
                         ELSE {}]
    /\ frames = [n \in DatasetIds |-> {}]
    /\ media_type = [n \in DatasetIds |-> IF n <= 2 THEN "image" ELSE "none"]
    /\ field_schema = [n \in DatasetIds |-> TextSchema]
    /\ sindex = [n \in DatasetIds |->
                  [f \in IndexedFields |-> IF n <= 2 THEN "plain" ELSE "none"]]
    /\ findex = [n \in DatasetIds |-> IF n <= 2 THEN {"sample_frame"} ELSE {}]
    /\ key_field \in {"filepath", "id"}
    /\ skip_existing \in Bools
    /\ insert_new \in Bools
    /\ fields \in InsertFieldChoices
    /\ omit_fields \in InsertOmitChoices
    /\ merge_lists = TRUE
    /\ overwrite \in Bools
    /\ srcName = 2 /\ pc = "idle" /\ err = "none" /\ nextId = FirstNewId
    /\ ix = NoIx
    /\ pre = [samples |-> samples[1], frames |-> {}]
    /\ IdleTools
    /\ IdleDocs
    /\ TwoDatasets

\* merge_samples(src, key_field=...) of a collection
PipelineMerge ==
    /\ res.op = "none"
    /\ MergeSamplesCall(1, 2, key_field, skip_existing, insert_new, fields,
                        omit_fields, merge_lists, overwrite, TRUE)

\* merge_samples(src, key_fcn=...) of a collection
PythonMerge ==
    /\ res.op = "none"
    /\ MergeSamplesPython(1, 2, skip_existing, insert_new, fields,
                          omit_fields, merge_lists, overwrite, TRUE)

NextInsert ==
    /\ \/ PipelineMerge
       \/ PythonMerge
    /\ UNCHANGED <<paramVars, docVars, toolVars>>

SpecInsert == InitInsert /\ [][NextInsert]_vars

----------------------------------------------------------------------------
(* SpecKeyed: one merge with a key function of a collection of up to two
   image samples, which may have the same key, into a dataset whose samples
   have different keys. *)

\* the samples of the source: for each of two ids, no sample or a sample
\* with one of the keys
SourceSlots == {1, 2}
NoKey == 0

InitKeyed ==
    /\ \E dk \in SUBSET Keys, sk \in [SourceSlots -> Keys \cup {NoKey}] :
         /\ samples = [n \in DatasetIds |->
                         IF n = 1 THEN {ImageSample(i, i, "f1") : i \in dk}
                         ELSE IF n = 2
                         THEN {ImageSample(10 + n2, sk[n2], "f2") :
                                 n2 \in {m \in SourceSlots : sk[m] # NoKey}}
                         ELSE {}]
    /\ frames = [n \in DatasetIds |-> {}]
    /\ media_type = [n \in DatasetIds |-> IF n <= 2 THEN "image" ELSE "none"]
    /\ field_schema = [n \in DatasetIds |-> TextSchema]
    /\ sindex = [n \in DatasetIds |->
                  [f \in IndexedFields |-> IF n <= 2 THEN "plain" ELSE "none"]]
    /\ findex = [n \in DatasetIds |-> IF n <= 2 THEN {"sample_frame"} ELSE {}]
    /\ key_field = "filepath"
    /\ skip_existing \in Bools
    /\ insert_new \in Bools
    /\ fields = None
    /\ omit_fields = None
    /\ merge_lists = TRUE
    /\ overwrite \in Bools
    /\ srcName = 2 /\ pc = "idle" /\ err = "none" /\ nextId = FirstNewId
    /\ ix = NoIx
    /\ pre = [samples |-> samples[1], frames |-> {}]
    /\ IdleTools
    /\ IdleDocs
    /\ TwoDatasets

NextKeyed == PythonMerge /\ UNCHANGED <<paramVars, docVars, toolVars>>

SpecKeyed == InitKeyed /\ [][NextKeyed]_vars

\* the samples of dataset 1 that the call inserted
InsertedSamples ==
    {d \in samples[1] : \A x \in pre.samples : x["_id"] # d["_id"]}

----------------------------------------------------------------------------
(* Properties of SpecSchema *)

\* the fields of a stored document, but its keys
StoredFields(d) == DOMAIN d \ {"_id", "_sample_id"}
StoredValues(d) == {f \in StoredFields(d) : GtNull(d[f])}

\* the documents a step has added to a collection
Added(before, after) == after \ before

\* C12: in every state reached by add_sample, add_samples with any flags,
\* merge_samples and field deletions, every field that a stored sample
\* carries with a non-null value is declared in the schema of its dataset.
C12_StoredFieldsDeclared ==
    \A i \in DatasetIds : \A d \in samples[i] :
        StoredValues(d) \subseteq DOMAIN field_schema[i].sample

\* C13 (as stated): after add_samples with expand_schema=True has
\* succeeded, every field present on an inserted sample is declared in the
\* sample schema, and every field present on its frames in the frame schema.
C13_PresentFieldsDeclared ==
    [][(res'.op = "add_samples" /\ res'.arg = "expand_schema"
            /\ res'.out = "ok") =>
        \A i \in DatasetIds :
            /\ \A d \in Added(samples[i], samples'[i]) :
                  StoredFields(d) \subseteq DOMAIN field_schema'[i].sample
            /\ \A d \in Added(frames[i], frames'[i]) :
                  StoredFields(d) \subseteq DOMAIN field_schema'[i].frame]_vars

\* C13 (amended): after add_samples with expand_schema=True has succeeded,
\* every field that an inserted sample carries with a non-null value is
\* declared in the sample schema, and every field that one of its frames
\* carries with a non-null value is declared in the frame schema.
C13_ValuedFieldsDeclared ==
    [][(res'.op = "add_samples" /\ res'.arg = "expand_schema"
            /\ res'.out = "ok") =>
        \A i \in DatasetIds :
            /\ \A d \in Added(samples[i], samples'[i]) :
                  StoredValues(d) \subseteq DOMAIN field_schema'[i].sample
            /\ \A d \in Added(frames[i], frames'[i]) :
                  StoredValues(d) \subseteq DOMAIN field_schema'[i].frame]_vars

\* add_samples with expand_schema=True has succeeded, and a dataset holds a
\* video sample whose frame carries fval, declared with the type of its value
C13_Witness ==
    /\ res.op = "add_samples" /\ res.arg = "expand_schema" /\ res.out = "ok"
    /\ \E i \in DatasetIds : \E d \in frames[i] :
          /\ "fval" \in StoredValues(d)
          /\ "fval" \in DOMAIN field_schema[i].frame
          /\ field_schema[i].frame["fval"] = ImpliedType(d["fval"])
          /\ samples[i] # {}

\* a sample of the list carries a value in a field that is not declared
HasUndeclared(list, sch) ==
    \E n \in 1..Len(list) : \E f \in DOMAIN list[n].fields :
        list[n].fields[f] # Null /\ f \notin DOMAIN sch

\* C14: add_sample and add_samples with expand_schema=False raise an error
\* and insert nothing when a sample of the list has a field that is not in
\* the schema of the dataset, whether validate is true or false.
C14_UndeclaredRefused ==
    [][(res'.op = "add_samples" /\ res'.arg = "") =>
        \A i \in DatasetIds, list \in SchemaSampleLists, v \in Bools :
            (/\ HasUndeclared(list, field_schema[i].sample)
             /\ AddSamples(i, list, FALSE, v))
            => res'.out # "ok" /\ samples' = samples]_vars

\* the calls of C15 but saving a view
KeepsSchemaOps ==
    {"add_samples", "merge_samples", "delete_samples", "clear", "save"}

\* the schema sch2 declares every field of sch1, with the type it has there
Keeps(sch1, sch2, f) == f \in DOMAIN sch2 /\ sch2[f] = sch1[f]

----------------------------------------------------------------------------
(* The phases of the merge of two video datasets, in SpecMerge *)

\* the two datasets of the merge
MergeEnds == {1, srcName}

\* every frame of both datasets carries the key of its sample / none does
Stamped ==
    \A c \in MergeEnds : \A f \in frames[c] :
        \E x \in samples[c] :
            /\ x["_id"] = Get(f, "_sample_id")
            /\ "_merge_key" \in DOMAIN f
            /\ f["_merge_key"] = Value(x, P.kf)
CarryMergeKey ==
    \A c \in MergeEnds : \A f \in frames[c] : "_merge_key" \in DOMAIN f
Unstamped ==
    \A c \in MergeEnds : \A f \in frames[c] : "_merge_key" \notin DOMAIN f

\* every frame of the destination refers to the sample with its merge key
Rewritten ==
    \A f \in frames[1] : \E x \in samples[1] :
        /\ x["_id"] = Get(f, "_sample_id")
        /\ "_merge_key" \in DOMAIN f => f["_merge_key"] = Value(x, P.kf)

PhaseOrder ==
    {<<"start", "stamped">>, <<"stamped", "samples_merged">>,
     <<"samples_merged", "frames_merged">>, <<"frames_merged", "finalized">>,
     <<"finalized", "done">>}

FrameIds(F) == {f["_id"] : f \in F}

\* C26: in a merge of video datasets by pipelines the phases come in this
\* order, each after the one before has finished: the frames of both
\* datasets are stamped with the key of their sample, the samples are
\* merged, the frames are merged, the _sample_id of the frames of the
\* destination is rewritten from the samples after the merge, the merge key
\* is removed from both frame collections; when the merge has completed no
\* frame of source or destination carries the merge key.
C26_PhasesInOrder ==
    /\ [](pc = "start" => Unstamped)
    /\ [](pc = "stamped" => Stamped)
    /\ [](pc \in {"samples_merged", "frames_merged", "finalized"}
            => CarryMergeKey)
    /\ [](pc \in {"finalized", "done"} => Rewritten)
    /\ [](pc = "done" => Unstamped)
    /\ [][pc' # pc => (pc' = "raised" \/ <<pc, pc'>> \in PhaseOrder)]_vars
    /\ [][samples' # samples => pc = "stamped"]_vars
    /\ [][(\E c \in MergeEnds : FrameIds(frames'[c]) # FrameIds(frames[c]))
            => pc = "samples_merged"]_vars
    /\ [][(pc # "frames_merged" /\ pc' # "raised") =>
            \A f \in frames[1], g \in frames'[1] :
                f["_id"] = g["_id"]
                    => Get(f, "_sample_id") = Get(g, "_sample_id")]_vars

\* a merge has completed that added samples and frames of the source
C26_Witness ==
    /\ pc = "done"
    /\ srcName = 2
    /\ frames[2] # {}
    /\ Cardinality(samples[1]) > Cardinality(pre.samples)
    /\ Cardinality(frames[1]) > Cardinality(pre.frames)
    /\ pre.frames # {}

\* the documents of the source that reach the $merge stage of the sample
\* pipeline
ReachMerge ==
    {SamplePipelineDoc(d, P.kf, P.ins, P.sf, P.so) : d \in samples[srcName]}

\* C28: in a merge by pipelines, every document that reaches the $merge
\* stage of the sample pipeline contains the key field, whatever fields,
\* omit_fields and insert_new are.
C28_KeyReachesMerge ==
    pc = "stamped" => \A d \in ReachMerge : P.kf \in DOMAIN d

\* C30: the frame $merge of a merge by pipelines never writes a frame that
\* violates the unique index on (_sample_id, frame_number) of the
\* destination: the step does not fail on the index, and when it is done
\* every frame of the source is in the destination, also when the source
\* has frames with the same frame number for several samples that are new
\* to the destination.
C30_FrameMergeKeepsIndex ==
    /\ [][(pc = "samples_merged" /\ pc' = "raised")
            => err' # "DuplicateKeyError"]_vars
    /\ [](pc = "frames_merged" =>
            \A f \in frames[srcName] : \E g \in frames[1] :
                /\ Get(g, "_merge_key") = Get(f, "_merge_key")
                /\ Get(g, "frame_number") = Get(f, "frame_number"))

----------------------------------------------------------------------------
(* Properties of SpecTemp *)

\* the datasets that exist in the database
ExistingDatasets(d) == {n \in 1..Len(d) : ~d[n]._deleted}

\* C23: when merge_samples is called with an iterable of samples and no
\* key function, the temporary dataset no longer exists when the call
\* ends, whether it returned or raised: the datasets that exist are the
\* same before and after the call.
C23_TempDatasetGone ==
    [][(res'.op = "merge_samples" /\ res'.arg = "iterable") =>
        ExistingDatasets(ds') = ExistingDatasets(ds)]_vars

----------------------------------------------------------------------------
(* Properties of SpecClone *)

Live(i) == i \in Constructed /\ ~ds[i]._deleted

\* the run of dataset i under the key has results that can be read
Loadable(i, key) ==
    IsNone(br.runs[i][key].results) \/ load_run_results(br, i, key) # {}

\* C22: after clone(), the run results of the clone are stored in blobs of
\* their own: whatever datasets have been deleted, every run result of a
\* dataset that is not deleted can be loaded, no blob is referred to by two
\* datasets, and no load of a run result fails for a missing blob.
C22_CloneOwnsItsResults ==
    /\ \A i \in DatasetIds : Live(i) =>
          \A key \in RunKeys : Loadable(i, key)
    /\ \A i \in DatasetIds, j \in DatasetIds, key \in RunKeys, kj \in RunKeys :
          (i # j /\ Live(i) /\ Live(j) /\ ~IsNone(br.runs[i][key].results))
             => br.runs[i][key].results # br.runs[j][kj].results
    /\ br.last # "NoFile"

\* the source is deleted, and a run result of the clone has been loaded
C22_Witness ==
    /\ ds[1]._deleted
    /\ Live(2)
    /\ br.last = "results"
    /\ \A key \in RunKeys :
          /\ br.runs[2][key].present
          /\ br.runs[2][key].results = Some(BlobId(2, key))
          /\ BlobData(br.blobs, BlobId(2, key)) = {BlobId(1, key)}
    /\ Cardinality(br.blobs) = 2

----------------------------------------------------------------------------
(* The indexes of the frame collection, in SpecData *)

\* two frames of the collection with the same (_sample_id, frame_number); a
\* field that is missing is indexed as null
SharePair(F) ==
    \E f \in F, g \in F :
        /\ f # g
        /\ Get(f, "_sample_id") = Get(g, "_sample_id")
        /\ Get(f, "frame_number") = Get(g, "frame_number")

\* C24: from the creation of a dataset to its deletion, in every state, in
\* particular after clear() and after a merge by pipelines, the frame
\* collection has the unique index on (_sample_id, frame_number), and no two
\* frames of the dataset share the pair.
C24_FrameIndexAlways ==
    \A i \in DatasetIds : Live(i) =>
        /\ "sample_frame" \in findex[i]
        /\ ~SharePair(frames[i])

----------------------------------------------------------------------------
(* Properties of SpecIndex *)

\* C25: after create_index(field, unique=U) has returned, the field is
\* indexed, and the index is unique if U is true or if the field had a
\* unique index before the call; a unique index is never replaced by a
\* non-unique one, and a non-unique index is replaced by a unique one when
\* U is true.
C25_CreateIndexKeepsUnique ==
    [][(res'.op = "create_index" /\ res'.out = "ok") =>
        \A i \in DatasetIds, f \in IndexedFields, u \in Bools :
            CreateIndex(i, f, u) =>
                /\ sindex'[i][f] # "none"
                /\ (u \/ sindex[i][f] = "unique") => sindex'[i][f] = "unique"
                /\ sindex[i][f] = "unique" => sindex'[i][f] = "unique"
                /\ (u /\ sindex[i][f] = "plain") => sindex'[i][f] = "unique"]_vars

\* create_index has returned on a dataset with samples and the field has a
\* unique index, which was not there when the dataset was created
C25_Witness ==
    /\ res.op = "create_index" /\ res.arg = "filepath" /\ res.out = "ok"
    /\ \E i \in DatasetIds :
          /\ Live(i)
          /\ samples[i] # {}
          /\ sindex[i]["filepath"] = "unique"

\* C27: after a merge by pipelines on a key field other than the id has
\* returned, the sample collections of source and destination have the
\* indexes they had before the call (a unique key index made for the merge
\* is dropped, a non-unique one that was replaced is made again, a unique
\* one that existed is untouched), and no frame collection has the index on
\* (merge key, frame_number).
C27_MergeRestoresIndexes ==
    [][(res'.op = "merge_samples" /\ res'.arg = "key_field"
            /\ res'.out = "ok") =>
        /\ sindex' = sindex
        /\ findex' = findex
        /\ \A i \in DatasetIds : "merge_frame" \notin findex'[i]]_vars

\* a merge has returned that added a sample to a destination without an
\* index on the key, from a source with a non-unique index
C27_Witness ==
    /\ res.op = "merge_samples" /\ res.arg = "key_field" /\ res.out = "ok"
    /\ \E i \in DatasetIds, j \in DatasetIds :
          /\ i # j
          /\ sindex[i]["filepath"] = "none"
          /\ sindex[j]["filepath"] = "plain"
          /\ samples[j] # {}
          /\ Cardinality(samples[i]) = Cardinality(samples[j])
          /\ \A x \in samples[i] : x["_id"].v >= FirstNewId + 1

----------------------------------------------------------------------------
(* Properties of SpecKeyed *)

\* C29: in a merge with a key function and insert_new=True, if no two
\* samples of the destination have the same key before the merge, none have
\* after it: a source sample with the key of an earlier source sample that
\* the same merge inserted is merged into that sample, not inserted again.
C29_KeyedMergeKeepsKeysUnique ==
    [][(res'.op = "merge_samples" /\ res'.arg = "key_fcn"
            /\ res'.out = "ok" /\ insert_new) =>
        \A i \in DatasetIds :
            (~\E x \in samples[i], y \in samples[i] :
                 x # y /\ key_fcn(x) = key_fcn(y))
            => (~\E x \in samples'[i], y \in samples'[i] :
                    x # y /\ key_fcn(x) = key_fcn(y))]_vars

----------------------------------------------------------------------------
(* Properties of SpecCreate *)

\* the call of process p ends with an error in this step
FailsNow(p) ==
    /\ cr.proc[p].pc # "done"
    /\ cr'.proc[p].pc = "done"
    /\ cr'.proc[p].out # "ok"

\* C21: creating a dataset under a name that is taken fails, the failure
\* leaves the dataset documents and the collections as they were and creates
\* no collection or index, and at most one dataset document exists per name
\* at any time: a call that finds the name taken when it tests or when it
\* saves ends with an error, a call that has saved is the one whose document
\* carries the name, and every collection belongs to a document.
C21_TakenNameFails ==
    /\ [](\A n \in DatasetNames :
            Cardinality({d \in cr.docs : d.name = n}) <= 1)
    /\ [](\A c \in cr.colls : \E d \in cr.docs : d.coll = c)
    /\ [](\A p \in Procs :
            (cr.proc[p].pc = "indexes" \/ cr.proc[p].out = "ok") =>
                [name |-> cr.proc[p].name,
                 coll |-> CollectionOf(p, cr.proc[p].name)] \in cr.docs)
    /\ [][\A p \in Procs :
            /\ FailsNow(p) => cr'.docs = cr.docs /\ cr'.colls = cr.colls
            /\ (/\ cr.proc[p].pc \in {"check", "save"}
                /\ cr'.proc[p] # cr.proc[p]
                /\ \E d \in cr.docs : d.name = cr.proc[p].name)
               => FailsNow(p)]_vars

\* both processes passed the test for the same free name; one has created
\* the dataset and the other one's save was refused
C21_Witness ==
    \E p \in Procs, q \in Procs :
        /\ cr.proc[p].pc = "done" /\ cr.proc[p].out = "ok"
        /\ cr.proc[q].pc = "done" /\ cr.proc[q].out = "NotUniqueError"
        /\ cr.proc[q].name = cr.proc[p].name
        /\ Cardinality(cr.docs) = 1

----------------------------------------------------------------------------
(* Properties of SpecIter and SpecIterFair *)

\* the _id values of the pipeline result of the dataset that is iterated
ResultIds == [n \in 1..Cardinality(samples[1]) |->
                InOrder(samples[1])[n]["_id"].v]

\* C16: iter_samples yields every sample of the result exactly once and in
\* result order, under any number of cursor expirations at any positions:
\* what has been yielded is always the result up to the number yielded, and
\* the whole result when the iteration has ended.
C16_YieldsResultInOrder ==
    it.pc \in {"iterating", "done"} =>
        /\ Len(it.yielded) <= Len(ResultIds)
        /\ it.yielded = SubSeq(ResultIds, 1, Len(it.yielded))
        /\ it.pc = "done" => it.yielded = ResultIds

\* the iteration of MaxDocs samples has ended after MaxExpirations cursors
\* expired, two of them after they had given samples
C16_Witness ==
    /\ it.pc = "done"
    /\ Len(it.yielded) = MaxDocs
    /\ Len(it.index) = MaxExpirations + 1
    /\ Cardinality({n \in 1..Len(it.pipeline) : it.pipeline[n].n > 0}) >= 2

\* C17: a cursor-expired failure is never propagated to the caller of
\* iter_samples, and when every cursor that is issued again gives a sample
\* or ends, the iteration terminates: an iteration that is in progress
\* leads to its end.
C17_IterationTerminates == (it.pc = "iterating") ~> (it.pc = "done")

\* the iteration has ended after a cursor that was issued again expired
C17_Witness ==
    /\ it.pc = "done"
    /\ Len(it.index) >= 3
    /\ it.yielded = ResultIds /\ Len(it.yielded) >= 2

----------------------------------------------------------------------------
(* Properties of SpecPipe *)

\* the list that the call has returned, and the stages the caller passed
Compiled == cp.heap[cp.ret]
UserPart == IF IsNone(cp.given) THEN <<>> ELSE The(cp.given)

\* the sequence s ends with the sequence e
EndsWith(s, e) ==
    /\ Len(s) >= Len(e)
    /\ SubSeq(s, Len(s) - Len(e) + 1, Len(s)) = e

StartsWith(s, e) == Len(s) >= Len(e) /\ SubSeq(s, 1, Len(e)) = e

ReturnedForVideo == cp.pc = "done" /\ cp.mt = "video"

\* C18: for a video dataset with frames_only=True, whatever attach_frames and
\* detach_frames are, the compiled pipeline starts with the frames join and
\* ends with the three stages that keep, unwind and promote the frames.
C18_FramesOnlyShape ==
    (ReturnedForVideo /\ cp.frames_only) =>
        /\ StartsWith(Compiled, <<LookupFrames>>)
        /\ EndsWith(Compiled, FramesOnlyStages)

\* C19 (as stated): for a video dataset with detach_frames=True and
\* frames_only=False, the compiled pipeline ends with the projection that
\* removes frames, whether or not attach_frames was requested.
C19_DetachEndsWithProjection ==
    (ReturnedForVideo /\ cp.detach_frames /\ ~cp.frames_only) =>
        EndsWith(Compiled, <<DetachFrames>>)

\* C19 (amended): for a video dataset with detach_frames=True and
\* frames_only=False, the compiled pipeline ends with the projection that
\* removes frames when attach_frames was requested too; when it was not,
\* nothing is attached or projected and the compiled pipeline is the user
\* stages.
C19_DetachNeedsAttach ==
    (ReturnedForVideo /\ cp.detach_frames /\ ~cp.frames_only) =>
        IF cp.attach_frames
        THEN Compiled = <<LookupFrames>> \o UserPart \o <<DetachFrames>>
        ELSE Compiled = UserPart

\* detach_frames=True without attach_frames has returned the user stages of
\* a video dataset
C19_Witness ==
    /\ ReturnedForVideo /\ cp.detach_frames /\ ~cp.frames_only
    /\ ~cp.attach_frames
    /\ Len(UserPart) = MaxLen /\ Compiled = UserPart

\* the number of frames joins in a list of stages
Joins(s) == Cardinality({n \in 1..Len(s) : s[n] = LookupFrames})

\* C20: the compiled pipeline is an optional frames join, then the user
\* stages in their order, then a tail (nothing, the projection that removes
\* frames, or the three frames-only stages); the caller's list is not
\* modified; the join occurs at most once, first, and exactly when the
\* dataset is a video dataset and attach_frames or frames_only is requested;
\* for a dataset that is not a video dataset the result equals the caller's
\* list.
C20_CompiledShape ==
    cp.pc = "done" =>
        /\ \E head \in {<<>>, <<LookupFrames>>},
              tail \in {<<>>, <<DetachFrames>>, FramesOnlyStages} :
             Compiled = head \o UserPart \o tail
        /\ ~IsNone(cp.given) =>
              cp.heap["caller"] = The(cp.given) /\ cp.ret # "caller"
        /\ Joins(Compiled) <= 1
        /\ Joins(Compiled) = 1 <=>
              (cp.mt = "video" /\ (cp.attach_frames \/ cp.frames_only))
        /\ Joins(Compiled) = 1 => Compiled[1] = LookupFrames
        /\ cp.mt # "video" => Compiled = UserPart

\* a call with a list of user stages, attach_frames and frames_only on a
\* video dataset has returned
C20_Witness ==
    /\ ReturnedForVideo /\ cp.attach_frames /\ cp.frames_only
    /\ ~cp.detach_frames
    /\ Len(UserPart) = MaxLen
    /\ Compiled = <<LookupFrames>> \o UserPart \o FramesOnlyStages
    /\ cp.heap["caller"] = UserPart

----------------------------------------------------------------------------
(* Properties of SpecLife *)

----------------------------------------------------------------------------
(* Properties of SpecData *)

\* C5: the media type of a dataset that holds samples does not change; a
\* non-null media type changes only by an assignment of a valid media type
\* to a dataset that holds no samples.
C5_MediaTypeFixedWhileNonEmpty ==
    [][\A i \in DatasetIds :
         (media_type[i] # "none" /\ media_type'[i] # media_type[i])
         => /\ samples[i] = {}
            /\ res'.op = "set_media_type" /\ res'.out = "ok"
            /\ media_type'[i] \in {"image", "video"}]_vars

\* C5 as stated: a non-null media type never changes
C5_MediaTypeNeverChanges ==
    [][\A i \in DatasetIds :
         media_type[i] # "none" => media_type'[i] = media_type[i]]_vars

\* an assignment to a dataset that holds samples was refused
C5_Witness ==
    /\ res.op = "set_media_type" /\ res.out = "ValueError"
    /\ \A i \in Constructed : samples[i] # {} /\ media_type[i] # "none"

\* C6: every stored sample of a dataset has the media type of the dataset.
C6_StoredSamplesMatchMediaType ==
    \A i \in DatasetIds :
        \A s \in samples[i] : s["_media_type"] = Val(media_type[i])

====
